---- MODULE Spec2Model ----
(***************************************************************************)
(* The frame presentation loop of src/main.cpp (main, lines 1692-1937) as  *)
(* a state machine: the CPU thread of main walks through its statements    *)
(* (pc), the Vulkan queue and the presentation engine run beside it.       *)
(*                                                                         *)
(* Handles are records that carry the parameters they were created with,   *)
(* so that a stale handle (one kept after its object was destroyed) is     *)
(* told apart from the handle of the object that replaced it.              *)
(*                                                                         *)
(* An access to a vector outside its bounds is undefined behaviour: the    *)
(* model lets it crash the process, or go on with the value an earlier     *)
(* out-of-bounds write left there or with any other bit pattern (Garbage). *)
(*                                                                         *)
(* Calls whose result main checks may fail (an input of the action).       *)
(* Calls whose result main ignores (vkResetFences, vkDeviceWaitIdle,       *)
(* vkWaitForFences, vkResetCommandBuffer) are modelled on their successful *)
(* outcome: the waits block until their condition holds.                   *)
(*                                                                         *)
(* The helper functions that compute a value from their arguments alone    *)
(* (createImageFromTGAFile's command stream, getSurfaceFormat,             *)
(* getNumberOfSwapImages, getSwapImageSize, getPresentationMode,           *)
(* findMemoryType) are operators; HelperSpec draws their arguments in its  *)
(* initial state (helper) and applies them.                                *)
(***************************************************************************)
EXTENDS Integers, Sequences, FiniteSets, TLC

(* ------------------------------ bounds --------------------------------- *)
MaxFrames == 3          \* loop iterations before the quit event is forced
MaxRecreations == 2     \* out-of-date results the presentation engine reports
MinImageCount == 2      \* smallest image count a swapchain reports
MaxImageCount == 3      \* largest image count a swapchain reports
MaxIgnoredFailures == 1 \* failures of calls whose result the program does not look at

ImageCounts == MinImageCount..MaxImageCount
\* abstract surface sizes: two are enough to tell a changed extent from an unchanged one
Extents == {1, 2}

VARIABLES
    pc,                       \* statement of main the CPU thread is at
    exitCode,                 \* value main returned (0 while running)
    done,                     \* main: bool done
    frame,                    \* number of loop iterations started
    gen,                      \* number of recreations entered
    swapchain,                \* main: VkSwapchainKHR swapchain
    chainImages,              \* main: std::vector<VkImage>
    chainImageViews,          \* main: std::vector<VkImageView>
    frameBuffers,             \* main: std::vector<VkFramebuffer>
    commandBuffers,           \* main: std::vector<VkCommandBuffer>
    depthImageView,           \* main: depthImageView (with its image and memory)
    pipelineInfo,             \* global PipelineInfo pipelineInfo
    nextImage,                \* main: uint nextImage
    imageAvailableSemaphore,  \* [count, by]: unconsumed signals, frame of the signal
    renderFinishedSemaphore,  \* [count, by]
    fence,                    \* "none" | "signaled" | "unsignaled"
    acquirePending,           \* signals the last acquire still owes: subset of {"semaphore","fence"}
    queue,                    \* operations pending on the (single) device queue, in submission order
    live,                     \* handles of the objects that exist in the driver
    destroyed,                \* handles of the objects that were destroyed
    cbState,                  \* command buffer handle -> lifecycle state
    cbTarget,                 \* command buffer handle -> framebuffer it was last recorded against
    cbContents,               \* command buffer handle -> sequence of the commands recorded in it
    oneShot,                  \* [cb, n, use]: the ScopedCommandBuffer in scope, how many were made, its caller
    ub,                       \* an out-of-bounds vector access has happened
    lastCall,                 \* the last call the CPU thread made
    used,                     \* what the current iteration did: [acquiredFrom, recFb, recCb, subCb, presSc, presIdx, resetCb, recreated]
    semWaited,                \* semaphore name -> [by, waiter, op]: the last wait executed on it
    misuse,                   \* API misuses seen so far (set of strings)
    rcSnapshot,               \* framebuffers, views and swapchain live when the current recreation began
    rcDestroyed,              \* handles passed to a destroy call during the current recreation
    results,                  \* [acquire, present]: VkResult of the iteration's acquire and present
    failed,                   \* the calls that have returned a non-success result
    helper                    \* a helper function called on its own: [fn, its arguments, its result]

\* the state of main and of the device
mainVars == << pc, exitCode, done, frame, gen, swapchain, chainImages, chainImageViews,
           frameBuffers, commandBuffers, depthImageView, pipelineInfo, nextImage,
           imageAvailableSemaphore, renderFinishedSemaphore, fence, acquirePending,
           queue, live, destroyed, cbState, cbTarget, cbContents, oneShot, ub, lastCall, used, semWaited,
           misuse, rcSnapshot, rcDestroyed, results, failed >>

vars == << mainVars, helper >>

(* ------------------------------ handles -------------------------------- *)
NullHandle == [kind |-> "null"]
Garbage == [kind |-> "garbage"]
SwapchainH(g, n, e) == [kind |-> "swapchain", gen |-> g, count |-> n, extent |-> e]
ImageH(sc, i) == [kind |-> "image", sc |-> sc, idx |-> i]
ViewH(img) == [kind |-> "view", image |-> img]
DepthH(g, e) == [kind |-> "depth", gen |-> g, extent |-> e]
FramebufferH(g, i, view, depth, e) ==
    [kind |-> "framebuffer", gen |-> g, idx |-> i, view |-> view, depth |-> depth, extent |-> e]
CommandBufferH(i) == [kind |-> "commandBuffer", idx |-> i]
SemaphoreH(name) == [kind |-> "semaphore", name |-> name]
FenceH == [kind |-> "fence"]
ShaderH(name) == [kind |-> "shader", name |-> name]
DescriptorPoolH == [kind |-> "descriptorPool"]
TextureH == [kind |-> "texture"]
OneShotH(n) == [kind |-> "oneShotCommandBuffer", n |-> n]

OfKind(S, k) == { h \in S : h.kind = k }

(* ------------------------- std::vector access -------------------------- *)
\* v[i] with 0-based i; defined only inside the vector
InBounds(v, i) == i >= 0 /\ i < Len(v)
At(v, i) == v[i + 1]
\* what an out-of-bounds read of index i of a vector of handles of kind k can yield:
\* the handle an earlier out-of-bounds write of that index left there (a live object
\* of that kind and index the vector does not hold), or any other bit pattern (Garbage)
Wild(v, i, k) == { h \in OfKind(live, k) : h.idx = i /\ h \notin { v[j] : j \in 1..Len(v) } }
                 \cup {Garbage}
\* the values the expression v[i] can have: the element, or a wild value when out of bounds
Read(v, i, k) == IF InBounds(v, i) THEN {At(v, i)} ELSE Wild(v, i, k)

Range(s) == { s[i] : i \in 1..Len(s) }

(* --------------------------- variable groups --------------------------- *)
loopVars == << done, frame, nextImage, results >>
chainVars == << swapchain, chainImages, chainImageViews, frameBuffers, depthImageView, pipelineInfo >>
cmdVars == << commandBuffers, cbState, cbTarget, cbContents, oneShot >>
syncVars == << imageAvailableSemaphore, renderFinishedSemaphore, fence, acquirePending, semWaited >>
driverVars == << live, destroyed, misuse >>
rcVars == << gen, rcSnapshot, rcDestroyed >>

NoUse == [acquiredFrom |-> NullHandle, recFb |-> NullHandle, recCb |-> NullHandle,
          subCb |-> NullHandle, presSc |-> NullHandle, presIdx |-> -1, resetCb |-> NullHandle,
          recreated |-> FALSE]

\* no helper is examined on its own while main runs
NoCall == [fn |-> "none"]

\* main before its first statement
MainInit ==
    /\ pc = "s_platform"
    /\ exitCode = 0
    /\ done = FALSE
    /\ frame = 0
    /\ gen = 0
    /\ swapchain = NullHandle
    /\ chainImages = << >>
    /\ chainImageViews = << >>
    /\ frameBuffers = << >>
    /\ commandBuffers = << >>
    /\ depthImageView = NullHandle
    /\ pipelineInfo = [extent |-> 0]
    /\ nextImage = 0
    /\ imageAvailableSemaphore = [count |-> 0, by |-> 0]
    /\ renderFinishedSemaphore = [count |-> 0, by |-> 0]
    /\ fence = "none"
    /\ acquirePending = {}
    /\ queue = << >>
    /\ live = {}
    /\ destroyed = {}
    /\ cbState = << >>
    /\ cbTarget = << >>
    /\ cbContents = << >>
    /\ oneShot = [cb |-> NullHandle, n |-> 0, use |-> "none"]
    /\ ub = FALSE
    /\ lastCall = "none"
    /\ used = NoUse
    /\ semWaited = [imageAvailable |-> [by |-> 0, waiter |-> 0, op |-> "none"],
                    renderFinished |-> [by |-> 0, waiter |-> 0, op |-> "none"]]
    /\ misuse = {}
    /\ rcSnapshot = {}
    /\ rcDestroyed = {}
    /\ results = [acquire |-> "none", present |-> "none"]
    /\ failed = {}

Init == MainInit /\ helper = NoCall

(* ------------------------- driver bookkeeping -------------------------- *)
\* handles a pending queue operation refers to
Refs(op) == {op.cb, op.swapchain}
            \cup { SemaphoreH(name) : name \in op.wait \cup op.signal }
            \cup (IF op.cb \in DOMAIN cbTarget
                  THEN {cbTarget[op.cb]} \cup
                       (IF cbTarget[op.cb].kind = "framebuffer"
                        THEN {cbTarget[op.cb].view, cbTarget[op.cb].depth} ELSE {})
                  ELSE {})
PendingRefs == UNION { Refs(queue[i]) : i \in 1..Len(queue) }

\* the driver's objects after vkDestroy*(h) for every h of the sequence hs, in
\* order, and the creation of the objects of the set new
Driver(hs, new) ==
    /\ live' = (live \ Range(hs)) \cup new
    /\ destroyed' = destroyed \cup (Range(hs) \ {NullHandle})
    /\ misuse' = misuse
         \cup (IF \E i \in 1..Len(hs) : hs[i] # NullHandle /\
                    (hs[i] \notin live \/ \E j \in 1..(i-1) : hs[j] = hs[i])
               THEN {"destroyed a handle that is not live"} ELSE {})
         \cup (IF Range(hs) \cap PendingRefs # {}
               THEN {"destroyed a handle pending work refers to"} ELSE {})

\* the call just made (lastCall') has returned a non-success result and the caller
\* throws: nothing in the file catches, so the process aborts
Throw ==
    pc' = "aborted" /\ exitCode' = exitCode /\ failed' = failed \cup {lastCall'} /\ helper' = helper
Return(code) == pc' = "returned" /\ exitCode' = code /\ failed' = failed /\ helper' = helper
\* mutant of Fail: a failed call of setup makes main return the value of a normal quit
Fail_ReturnsQuitValue(fatal) ==
    IF fatal THEN Throw
    ELSE pc' = "returned" /\ exitCode' = 1 /\ failed' = failed \cup {lastCall'} /\ helper' = helper

\* a failed call of setup makes main return -1; in the recreation path it throws
Fail(fatal) ==
    IF fatal THEN Throw
    ELSE pc' = "returned" /\ exitCode' = -1 /\ failed' = failed \cup {lastCall'} /\ helper' = helper
Goto(next) == pc' = next /\ exitCode' = exitCode /\ failed' = failed /\ helper' = helper
\* the statement after one that may have accessed a vector out of bounds (oob): the
\* program goes on, or the access has crashed it
GotoOrCrash(next, oob) ==
    /\ \E crash \in (IF oob THEN BOOLEAN ELSE {FALSE}) : pc' = IF crash THEN "crashed" ELSE next
    /\ exitCode' = exitCode
    /\ failed' = failed
    /\ helper' = helper

\* std::vector::resize(n): keeps the first elements, fills with null handles
Resize(v, n) == [i \in 1..n |-> IF i <= Len(v) THEN v[i] ELSE NullHandle]

(* ------------------------- ScopedCommandBuffer ------------------------- *)
\* what a one-shot step leaves alone
scopedUnchanged == << loopVars, chainVars, commandBuffers, cbState, cbTarget, cbContents,
                      syncVars, rcVars, ub, used >>

\* a throw while a ScopedCommandBuffer is in scope: no handler exists in the program,
\* so std::terminate is called, and whether the stack is unwound first (running
\* ~ScopedCommandBuffer 616-618, which frees the command buffer) is up to the
\* implementation
ThrowUnwinding ==
    /\ \E unwind \in BOOLEAN : Driver(IF unwind THEN << oneShot.cb >> ELSE << >>, {})
    /\ Throw

\* ScopedCommandBuffer 582-598: allocate a command buffer (result not looked at) and
\* begin recording; a throw of the constructor runs no destructor of this object
ScopedCommandBufferNew(here, use, next) ==
    /\ pc = here
    /\ lastCall' = "vkBeginCommandBuffer"
    /\ oneShot' = [cb |-> OneShotH(oneShot.n + 1), n |-> oneShot.n + 1, use |-> use]
    /\ Driver(<< >>, {OneShotH(oneShot.n + 1)})
    /\ \E ok \in BOOLEAN : IF ok THEN Goto(next) ELSE Throw
    /\ UNCHANGED << scopedUnchanged, queue >>

\* submitAndWait 600-611: vkEndCommandBuffer, then vkQueueSubmit of the one command
\* buffer with no semaphore and no fence; either may fail
submitAndWaitSubmit(here, next) ==
    /\ pc = here
    /\ lastCall' = "vkQueueSubmit"
    /\ \E ok \in BOOLEAN :
         IF ok
         THEN /\ queue' = Append(queue, [op |-> "oneShot", cb |-> oneShot.cb,
                                         swapchain |-> NullHandle, index |-> -1, wait |-> {},
                                         signal |-> {}, frame |-> frame])
              /\ Driver(<< >>, {})
              /\ Goto(next)
         ELSE /\ queue' = queue
              /\ ThrowUnwinding
    /\ UNCHANGED << scopedUnchanged, oneShot >>

\* submitAndWait 612-614: vkQueueWaitIdle returns when the queue has drained, or fails
\* with the submission still on the queue
submitAndWaitWait(here, next) ==
    /\ pc = here
    /\ lastCall' = "vkQueueWaitIdle"
    /\ \E ok \in BOOLEAN :
         IF ok THEN queue = << >> /\ Driver(<< >>, {}) /\ Goto(next) ELSE ThrowUnwinding
    /\ UNCHANGED << scopedUnchanged, oneShot, queue >>

\* ~ScopedCommandBuffer 616-618 at the end of the caller's scope
ScopedCommandBufferDelete(here, next) ==
    /\ pc = here
    /\ lastCall' = "vkFreeCommandBuffers"
    /\ Driver(<< oneShot.cb >>, {})
    /\ oneShot' = [oneShot EXCEPT !.cb = NullHandle]
    /\ Goto(next)
    /\ UNCHANGED << scopedUnchanged, queue >>

(* ------------------- swapchain and what depends on it ------------------ *)
\* createSwapChain(surface, gpu, device, outSwapChain): old is outSwapChain on entry
createSwapChain(old, next, fatal) ==
    /\ queue = << >>                                    \* vkDeviceWaitIdle
    /\ lastCall' = "createSwapChain"
    /\ \E stage \in {"ok", "early", "late", "create"}, n \in ImageCounts, e \in Extents :
         /\ pipelineInfo' = IF stage = "early" THEN pipelineInfo ELSE [extent |-> e]
         /\ IF stage = "ok"
            THEN /\ swapchain' = SwapchainH(gen, n, e)
                 /\ Driver(IF old # NullHandle THEN << old >> ELSE << >>,
                           {SwapchainH(gen, n, e)})
                 /\ Goto(next)
            ELSE /\ swapchain' = old
                 /\ Driver(IF old # NullHandle /\ stage = "create" THEN << old >> ELSE << >>, {})
                 /\ Fail(fatal)
    /\ UNCHANGED << chainImages, chainImageViews, frameBuffers, depthImageView >>

\* getSwapChainImageHandles(device, chain, outImageHandles)
getSwapChainImageHandles(next, fatal) ==
    /\ lastCall' = "vkGetSwapchainImagesKHR"
    /\ \E stage \in {"ok", "count", "handles"} :
         /\ chainImages' =
              CASE stage = "ok" -> [i \in 1..swapchain.count |-> ImageH(swapchain, i - 1)]
                [] stage = "count" -> chainImages
                [] stage = "handles" -> [i \in 1..swapchain.count |-> NullHandle]
         /\ IF stage = "ok" THEN Goto(next) ELSE Fail(fatal)
    /\ UNCHANGED << swapchain, chainImageViews, frameBuffers, depthImageView, pipelineInfo >>
    /\ UNCHANGED driverVars

\* makeChainImageViews(device, swapChain, images, imageViews): views is imageViews on
\* entry; the k-th vkCreateImageView fails when k < images.size()
makeChainImageViews(views, next) ==
    /\ lastCall' = "vkCreateImageView"
    /\ \E k \in 0..Len(chainImages) :
         /\ chainImageViews' = [i \in 1..Len(chainImages) |->
                IF i <= k THEN ViewH(chainImages[i]) ELSE Resize(views, Len(chainImages))[i]]
         /\ Driver(<< >>, { ViewH(chainImages[i]) : i \in 1..k })
         /\ IF k = Len(chainImages) THEN Goto(next) ELSE Throw
    /\ UNCHANGED << swapchain, chainImages, frameBuffers, depthImageView, pipelineInfo >>

\* createDepthBuffer 1002-1054: the depth image, its memory and its view; the image has
\* the extent pipelineInfo holds at the call; the layout transition of 1056 follows
createDepthBuffer(next) ==
    /\ lastCall' = "createDepthBuffer"
    /\ \E ok \in BOOLEAN :
         IF ok
         THEN /\ depthImageView' = DepthH(gen, pipelineInfo.extent)
              /\ Driver(<< >>, {DepthH(gen, pipelineInfo.extent)})
              /\ Goto(next)
         ELSE /\ depthImageView' = depthImageView
              /\ Driver(<< >>, {})
              /\ Throw
    /\ UNCHANGED << swapchain, chainImages, chainImageViews, frameBuffers, pipelineInfo >>

\* the framebuffer makeFramebuffers creates for index i (1-based here)
NewFramebuffer(i) ==
    FramebufferH(gen, i - 1, chainImageViews[i], depthImageView, pipelineInfo.extent)

\* makeFramebuffers(device, renderPass, chainImageViews, frameBuffers, depthImageView):
\* fbs is frameBuffers on entry and is not resized; the k-th vkCreateFramebuffer fails
\* when k < chainImageViews.size(); a handle written past the end of fbs is lost
makeFramebuffers(fbs, next) ==
    /\ lastCall' = "vkCreateFramebuffer"
    /\ \E k \in 0..Len(chainImageViews) :
         /\ frameBuffers' = [i \in 1..Len(fbs) |-> IF i <= k THEN NewFramebuffer(i) ELSE fbs[i]]
         /\ Driver(<< >>, { NewFramebuffer(i) : i \in 1..k })
         /\ ub' = (ub \/ k > Len(fbs))
         /\ IF k = Len(chainImageViews) THEN GotoOrCrash(next, k > Len(fbs)) ELSE Throw
    /\ UNCHANGED << swapchain, chainImages, chainImageViews, depthImageView, pipelineInfo >>

(* -------------------------------- setup -------------------------------- *)
\* main 1693-1745: the steps before the swapchain, each of which makes main return -1
\* when it reports failure
PlatformSteps == << "SDL_Init", "SDL_CreateWindow", "getAvailableVulkanExtensions",
                   "getAvailableVulkanLayers", "createVulkanInstance", "selectGPU",
                   "createLogicalDevice", "createSurface" >>

\* main 1693-1747: the window, the instance, the device and the surface; the first step
\* that reports failure ends main with -1; getPresentationQueue (1747, 1560-1571) throws
\* when the queue family cannot present
SetupPlatform ==
    /\ pc = "s_platform"
    /\ \E r \in {"ok", "getPresentationQueue"} \cup Range(PlatformSteps) :
         /\ lastCall' = IF r = "ok" THEN "getPresentationQueue" ELSE r
         /\ IF r = "ok" THEN Goto("s_createSwapChain")
            ELSE IF r = "getPresentationQueue" THEN Throw
            ELSE Fail(FALSE)
    /\ UNCHANGED << loopVars, chainVars, cmdVars, syncVars, driverVars, rcVars, queue, ub, used >>

\* main 1750-1752
SetupCreateSwapChain ==
    /\ pc = "s_createSwapChain"
    /\ createSwapChain(swapchain, "s_getImages", FALSE)
    /\ UNCHANGED << loopVars, cmdVars, syncVars, rcVars, queue, ub, used >>

\* main 1754-1756
SetupGetImages ==
    /\ pc = "s_getImages"
    /\ getSwapChainImageHandles("s_makeViews", FALSE)
    /\ UNCHANGED << loopVars, cmdVars, syncVars, rcVars, queue, ub, used >>

\* main 1758-1759
SetupMakeViews ==
    /\ pc = "s_makeViews"
    /\ makeChainImageViews(Resize(<< >>, Len(chainImages)), "s_loadShaders")
    /\ UNCHANGED << loopVars, cmdVars, syncVars, rcVars, queue, ub, used >>

\* main 1768-1769 and loadShaderModule 1356-1361: the value loadShaderModule returns,
\* VK_NULL_HANDLE when createShaderModule has failed
vertShader == IF "vkCreateShaderModule" \in failed THEN NullHandle ELSE ShaderH("vert")
fragShader == IF "vkCreateShaderModule" \in failed THEN NullHandle ELSE ShaderH("frag")
\* main 1789 and createDescriptorSet 1459-1460: descriptorPool is left uninitialized
\* when vkCreateDescriptorPool has failed
descriptorPool == IF "vkCreateDescriptorPool" \in failed THEN Garbage ELSE DescriptorPoolH

\* main 1768-1769: loadShaderModule ignores the result of createShaderModule
SetupLoadShaders ==
    /\ pc = "s_loadShaders"
    /\ lastCall' = "vkCreateShaderModule"
    /\ Driver(<< >>, {ShaderH("vert"), ShaderH("frag")})
    /\ Goto("s_createTexture")
    /\ UNCHANGED << loopVars, chainVars, cmdVars, syncVars, rcVars, queue, ub, used >>

\* createImageFromTGAFile 882-890: the helpers that each make a ScopedCommandBuffer, in
\* the order they are called
TextureUses == << "transitionImageLayout", "copyBufferToImage", "generateMipmaps",
                 "transitionImageLayout" >>

\* main 1775, createImageFromTGAFile 809-880: the file, the staging buffer, the image
\* and its memory; any of them may fail
SetupCreateTexture ==
    /\ pc = "s_createTexture"
    /\ lastCall' = "vkCreateImage"
    /\ \E ok \in BOOLEAN :
         IF ok THEN Driver(<< >>, {TextureH}) /\ Goto("s_texBegin")
         ELSE Driver(<< >>, {}) /\ Throw
    /\ UNCHANGED << loopVars, chainVars, cmdVars, syncVars, rcVars, queue, ub, used >>

\* createImageFromTGAFile 882-890: one ScopedCommandBuffer per helper
SetupTextureBegin ==
    /\ oneShot.n < Len(TextureUses)
    /\ ScopedCommandBufferNew("s_texBegin", TextureUses[oneShot.n + 1], "s_texSubmit")
SetupTextureSubmit == submitAndWaitSubmit("s_texSubmit", "s_texWait")
SetupTextureWait == submitAndWaitWait("s_texWait", "s_texFree")
SetupTextureFree ==
    ScopedCommandBufferDelete("s_texFree",
        IF oneShot.n < Len(TextureUses) THEN "s_texBegin" ELSE "s_texView")

\* createImageFromTGAFile 892-897: the staging buffer goes, the image view is made
SetupCreateTextureView ==
    /\ pc = "s_texView"
    /\ lastCall' = "vkCreateImageView"
    /\ Driver(<< >>, {})
    /\ \E ok \in BOOLEAN : IF ok THEN Goto("s_createDescriptorSet") ELSE Throw
    /\ UNCHANGED << loopVars, chainVars, cmdVars, syncVars, rcVars, queue, ub, used >>

\* main 1789: createDescriptorSet ignores the results of vkCreateDescriptorPool and
\* vkAllocateDescriptorSets
SetupCreateDescriptorSet ==
    /\ pc = "s_createDescriptorSet"
    /\ lastCall' = "vkCreateDescriptorPool"
    /\ Driver(<< >>, {DescriptorPoolH})
    /\ Goto("s_createDepth")
    /\ UNCHANGED << loopVars, chainVars, cmdVars, syncVars, rcVars, queue, ub, used >>

\* main 1806-1809
SetupCreateDepth ==
    /\ pc = "s_createDepth"
    /\ createDepthBuffer("s_depthBegin")
    /\ UNCHANGED << loopVars, cmdVars, syncVars, rcVars, queue, ub, used >>

\* createDepthBuffer 1056: transitionImageLayout 622, 679 and the end of its scope
SetupDepthBegin == ScopedCommandBufferNew("s_depthBegin", "createDepthBuffer", "s_depthSubmit")
SetupDepthSubmit == submitAndWaitSubmit("s_depthSubmit", "s_depthWait")
SetupDepthWait == submitAndWaitWait("s_depthWait", "s_depthFree")
SetupDepthFree == ScopedCommandBufferDelete("s_depthFree", "s_makeFramebuffers")

\* main 1812-1813
SetupMakeFramebuffers ==
    /\ pc = "s_makeFramebuffers"
    /\ makeFramebuffers(Resize(<< >>, Len(chainImages)), "s_createCommandBuffers")
    /\ UNCHANGED << loopVars, cmdVars, syncVars, rcVars, queue, used >>

\* main 1823-1826: one command buffer per image of the first swapchain
SetupCreateCommandBuffers ==
    /\ pc = "s_createCommandBuffers"
    /\ lastCall' = "vkAllocateCommandBuffers"
    /\ \E ok \in BOOLEAN :
         IF ok
         THEN /\ commandBuffers' = [i \in 1..Len(chainImages) |-> CommandBufferH(i - 1)]
              /\ cbState' = [h \in { CommandBufferH(i - 1) : i \in 1..Len(chainImages) } |-> "initial"]
              /\ cbTarget' = [h \in { CommandBufferH(i - 1) : i \in 1..Len(chainImages) } |-> NullHandle]
              /\ cbContents' = [h \in { CommandBufferH(i - 1) : i \in 1..Len(chainImages) } |-> << >>]
              /\ oneShot' = oneShot
              /\ Driver(<< >>, { CommandBufferH(i - 1) : i \in 1..Len(chainImages) })
              /\ Goto("s_createSync")
         ELSE /\ UNCHANGED cmdVars
              /\ Driver(<< >>, {})
              /\ Throw
    /\ UNCHANGED << loopVars, chainVars, syncVars, rcVars, queue, ub, used >>

\* createFence: VK_FENCE_CREATE_SIGNALED_BIT
createFence == "signaled"

\* main 1830-1834
SetupCreateSync ==
    /\ pc = "s_createSync"
    /\ lastCall' = "vkCreateFence"
    /\ \E ok \in BOOLEAN :
         IF ok
         THEN /\ fence' = createFence
              /\ Driver(<< >>, {SemaphoreH("imageAvailable"), SemaphoreH("renderFinished"), FenceH})
              /\ Goto("loopTest")
         ELSE /\ fence' = fence
              /\ Driver(<< >>, {})
              /\ Throw
    /\ UNCHANGED << imageAvailableSemaphore, renderFinishedSemaphore, acquirePending, semWaited >>
    /\ UNCHANGED << loopVars, chainVars, cmdVars, rcVars, queue, ub, used >>

Setup ==
    \/ SetupPlatform
    \/ SetupCreateSwapChain
    \/ SetupGetImages
    \/ SetupMakeViews
    \/ SetupLoadShaders
    \/ SetupCreateTexture
    \/ SetupTextureBegin
    \/ SetupTextureSubmit
    \/ SetupTextureWait
    \/ SetupTextureFree
    \/ SetupCreateTextureView
    \/ SetupCreateDescriptorSet
    \/ SetupCreateDepth
    \/ SetupDepthBegin
    \/ SetupDepthSubmit
    \/ SetupDepthWait
    \/ SetupDepthFree
    \/ SetupMakeFramebuffers
    \/ SetupCreateCommandBuffers
    \/ SetupCreateSync

(* ------------------------------ the loop ------------------------------- *)
VkResults == {"VK_SUCCESS", "VK_SUBOPTIMAL_KHR", "VK_ERROR_OUT_OF_DATE_KHR", "VK_ERROR_DEVICE_LOST"}

Running == pc \notin {"aborted", "crashed", "returned"}

\* main 1838: while (!done)
LoopTest ==
    /\ pc = "loopTest"
    /\ Goto(IF done THEN "x_queueWaitIdle" ELSE "poll")
    /\ UNCHANGED << loopVars, chainVars, cmdVars, syncVars, driverVars, rcVars, queue, ub,
                    lastCall, used >>

\* mutant of PollEvents: a quit event leaves the loop at once (a break after done = true)
PollEvents_BreakOnQuit ==
    /\ pc = "poll"
    /\ \E quit \in (IF frame + 1 >= MaxFrames THEN {TRUE} ELSE BOOLEAN) :
         /\ done' = (done \/ quit)
         /\ Goto(IF quit THEN "x_queueWaitIdle" ELSE "resetFences")
    /\ frame' = frame + 1
    /\ results' = [acquire |-> "none", present |-> "none"]
    /\ used' = NoUse
    /\ lastCall' = "SDL_PollEvent"
    /\ UNCHANGED << nextImage, chainVars, cmdVars, syncVars, driverVars, rcVars, queue, ub >>

\* main 1839-1843: drain the event queue; done is set when a quit event is in it
PollEvents ==
    /\ pc = "poll"
    /\ \E quit \in (IF frame + 1 >= MaxFrames THEN {TRUE} ELSE BOOLEAN) :
         done' = (done \/ quit)
    /\ frame' = frame + 1
    /\ results' = [acquire |-> "none", present |-> "none"]
    /\ used' = NoUse
    /\ lastCall' = "SDL_PollEvent"
    /\ Goto("resetFences")
    /\ UNCHANGED << nextImage, chainVars, cmdVars, syncVars, driverVars, rcVars, queue, ub >>

\* main 1844: vkResetFences(device, 1, &fence)
ResetFences ==
    /\ pc = "resetFences"
    /\ fence' = "unsignaled"
    /\ misuse' = misuse \cup
         (IF "fence" \in acquirePending THEN {"reset a fence whose signal is pending"} ELSE {})
    /\ lastCall' = "vkResetFences"
    /\ Goto("acquire")
    /\ UNCHANGED << imageAvailableSemaphore, renderFinishedSemaphore, acquirePending, semWaited >>
    /\ UNCHANGED << loopVars, chainVars, cmdVars, live, destroyed, rcVars, queue, ub, used >>

\* mutant of AcquireOutcome: a suboptimal acquire is taken as a success
AcquireOutcome_SuboptimalOk(r) ==
    IF r \notin {"VK_SUCCESS", "VK_SUBOPTIMAL_KHR"} THEN "throw" ELSE "ok"

\* main 1847-1850: what main does with the result of the acquire
AcquireOutcome(r) == IF r # "VK_SUCCESS" THEN "throw" ELSE "ok"

\* main 1846-1850: vkAcquireNextImageKHR(device, swapchain, UINT64_MAX,
\* imageAvailableSemaphore, fence, &nextImage); any result but VK_SUCCESS throws
AcquireNextImage ==
    /\ pc = "acquire"
    /\ lastCall' = "vkAcquireNextImageKHR"
    /\ used' = [used EXCEPT !.acquiredFrom = swapchain]
    /\ misuse' = misuse
         \cup (IF fence # "unsignaled" \/ "fence" \in acquirePending
               THEN {"acquire with a fence in use"} ELSE {})
         \cup (IF imageAvailableSemaphore.count > 0 \/ "semaphore" \in acquirePending
               THEN {"acquire with a semaphore in use"} ELSE {})
         \cup (IF swapchain \notin live THEN {"acquire from a swapchain that is not live"} ELSE {})
    /\ \E r \in VkResults :
         /\ results' = [results EXCEPT !.acquire = r]
         /\ IF r \in {"VK_SUCCESS", "VK_SUBOPTIMAL_KHR"}
            THEN /\ \E i \in 0..(swapchain.count - 1) : nextImage' = i
                 /\ acquirePending' = {"semaphore", "fence"}
            ELSE /\ nextImage' = nextImage
                 /\ acquirePending' = acquirePending
         /\ IF AcquireOutcome(r) = "ok" THEN Goto("record") ELSE Throw
    /\ UNCHANGED << done, frame, imageAvailableSemaphore, renderFinishedSemaphore, fence, semWaited >>
    /\ UNCHANGED << chainVars, cmdVars, live, destroyed, rcVars, queue, ub >>

\* recordRenderPass 1632: vkCmdDraw(commandBuffer, 12, 1, 0, 0)
DrawVertexCount == 12

\* mutant of RecordedCommands: the draw is recorded before the vertex buffer is bound,
\* and once more after it
RecordedCommands_DrawTwice(fb) ==
    << [cmd |-> "vkCmdBeginRenderPass", arg |-> fb],
       [cmd |-> "vkCmdBindPipeline", arg |-> "pipeline"],
       [cmd |-> "vkCmdBindDescriptorSets", arg |-> "descriptorSet"],
       [cmd |-> "vkCmdDraw", arg |-> DrawVertexCount],
       [cmd |-> "vkCmdBindVertexBuffers", arg |-> "vertexBuffer"],
       [cmd |-> "vkCmdDraw", arg |-> DrawVertexCount],
       [cmd |-> "vkCmdEndRenderPass", arg |-> fb] >>

\* recordRenderPass 1622-1634: the commands recorded between vkBeginCommandBuffer and
\* vkEndCommandBuffer, in order, for the framebuffer fb
RecordedCommands(fb) ==
    << [cmd |-> "vkCmdBeginRenderPass", arg |-> fb],
       [cmd |-> "vkCmdBindPipeline", arg |-> "pipeline"],
       [cmd |-> "vkCmdBindDescriptorSets", arg |-> "descriptorSet"],
       [cmd |-> "vkCmdBindVertexBuffers", arg |-> "vertexBuffer"],
       [cmd |-> "vkCmdDraw", arg |-> DrawVertexCount],
       [cmd |-> "vkCmdEndRenderPass", arg |-> fb] >>

\* main 1852 and recordRenderPass: vkBeginCommandBuffer (which resets the command
\* buffer), the commands, vkEndCommandBuffer; ok is FALSE when begin or end fails
RecordRenderPass ==
    /\ pc = "record"
    /\ lastCall' = "recordRenderPass"
    /\ \E fb \in Read(frameBuffers, nextImage, "framebuffer"),
          cb \in Read(commandBuffers, nextImage, "commandBuffer"),
          ok \in BOOLEAN :
         /\ used' = [used EXCEPT !.recFb = fb, !.recCb = cb]
         /\ ub' = (ub \/ ~InBounds(frameBuffers, nextImage) \/ ~InBounds(commandBuffers, nextImage))
         /\ misuse' = misuse
              \cup (IF fb \notin live THEN {"recorded against a framebuffer that is not live"} ELSE {})
              \cup (IF cb \notin live THEN {"recorded into a command buffer that is not live"} ELSE {})
              \cup (IF cb \in DOMAIN cbState /\ cbState[cb] = "pending"
                    THEN {"recorded into a pending command buffer"} ELSE {})
         /\ IF cb \in DOMAIN cbState
            THEN /\ cbState' = [cbState EXCEPT ![cb] = IF ok THEN "executable" ELSE "invalid"]
                 /\ cbTarget' = [cbTarget EXCEPT ![cb] = fb]
                 /\ cbContents' = [cbContents EXCEPT ![cb] = IF ok THEN RecordedCommands(fb) ELSE << >>]
            ELSE UNCHANGED << cbState, cbTarget, cbContents >>
         /\ oneShot' = oneShot
         /\ IF ok
            THEN GotoOrCrash("submit", ~InBounds(frameBuffers, nextImage)
                                       \/ ~InBounds(commandBuffers, nextImage))
            ELSE Throw
    /\ UNCHANGED << loopVars, chainVars, commandBuffers, syncVars, live, destroyed, rcVars, queue >>

\* submitCommandBuffer 1649-1657: the semaphores the submission waits on and signals
SubmitWaits == {"imageAvailable"}
SubmitSignals == {"renderFinished"}

\* submitCommandBuffer 1641-1661: vkQueueSubmit of the one command buffer
QueueSubmit ==
    /\ pc = "submit"
    /\ lastCall' = "vkQueueSubmit"
    /\ \E cb \in Read(commandBuffers, nextImage, "commandBuffer"), ok \in BOOLEAN :
         /\ used' = [used EXCEPT !.subCb = cb]
         /\ ub' = (ub \/ ~InBounds(commandBuffers, nextImage))
         /\ IF ok
            THEN /\ queue' = Append(queue, [op |-> "submit", cb |-> cb, swapchain |-> NullHandle,
                                            index |-> -1, wait |-> SubmitWaits,
                                            signal |-> SubmitSignals, frame |-> frame])
                 /\ cbState' = IF cb \in DOMAIN cbState
                               THEN [cbState EXCEPT ![cb] = "pending"] ELSE cbState
                 /\ GotoOrCrash("submitWait", ~InBounds(commandBuffers, nextImage))
            ELSE /\ UNCHANGED << queue, cbState >>
                 /\ Throw
    /\ UNCHANGED << loopVars, chainVars, commandBuffers, cbTarget, cbContents, oneShot,
                    syncVars, driverVars, rcVars >>

\* mutant of QueueWaitIdle: the submission is not waited for
QueueWaitIdle_NoWait ==
    /\ pc = "submitWait"
    /\ lastCall' = "vkQueueWaitIdle"
    /\ Goto("present")
    /\ UNCHANGED << loopVars, chainVars, cmdVars, syncVars, driverVars, rcVars, queue, ub, used >>

\* submitCommandBuffer 1663-1666: vkQueueWaitIdle(graphicsQueue) returns when the queue
\* has drained, or fails
QueueWaitIdle ==
    /\ pc = "submitWait"
    /\ lastCall' = "vkQueueWaitIdle"
    /\ \E ok \in BOOLEAN :
         IF ok THEN queue = << >> /\ Goto("present") ELSE Throw
    /\ UNCHANGED << loopVars, chainVars, cmdVars, syncVars, driverVars, rcVars, queue, ub, used >>

\* mutant of PresentOutcome: a suboptimal present also asks for a recreation
PresentOutcome_SuboptimalRecreates(r) ==
    IF r # "VK_SUCCESS"
    THEN IF r \in {"VK_ERROR_OUT_OF_DATE_KHR", "VK_SUBOPTIMAL_KHR"} THEN "recreate" ELSE "throw"
    ELSE "ok"

\* presentQueue 1681-1689: what presentQueue does with the result of vkQueuePresentKHR
PresentOutcome(r) ==
    IF r # "VK_SUCCESS"
    THEN IF r = "VK_ERROR_OUT_OF_DATE_KHR" THEN "recreate" ELSE "throw"
    ELSE "ok"

\* mutant of PresentWaits: the present waits on no semaphore
PresentWaits_None == {}

\* presentQueue 1673-1674: the semaphores the present waits on
PresentWaits == {"renderFinished"}

\* presentQueue 1669-1690 and main 1854-1855: VK_SUCCESS goes on, VK_ERROR_OUT_OF_DATE_KHR
\* enters the recreation, any other result throws
PresentQueue ==
    /\ pc = "present"
    /\ lastCall' = "vkQueuePresentKHR"
    /\ used' = [used EXCEPT !.presSc = swapchain, !.presIdx = nextImage]
    /\ misuse' = misuse \cup
         (IF swapchain \notin live THEN {"presented a swapchain that is not live"} ELSE {})
    /\ \E r \in VkResults :
         /\ PresentOutcome(r) = "recreate" => gen < MaxRecreations
         /\ results' = [results EXCEPT !.present = r]
         /\ queue' = IF r = "VK_ERROR_DEVICE_LOST" THEN queue
                     ELSE Append(queue, [op |-> "present", cb |-> NullHandle, swapchain |-> swapchain,
                                         index |-> nextImage, wait |-> PresentWaits,
                                         signal |-> {}, frame |-> frame])
         /\ IF PresentOutcome(r) = "ok"
            THEN Goto("delay") /\ UNCHANGED rcVars
            ELSE IF PresentOutcome(r) = "recreate"
            THEN /\ Goto("rc_deviceWaitIdle")
                 /\ gen' = gen + 1
                 /\ rcSnapshot' = { h \in live : h.kind \in {"framebuffer", "view", "swapchain"} }
                 /\ rcDestroyed' = {}
            ELSE Throw /\ UNCHANGED rcVars
    /\ UNCHANGED << done, frame, nextImage, chainVars, cmdVars, syncVars, live, destroyed, ub >>

\* mutant of WaitForFences: the wait returns at once (a timeout of 0)
WaitForFences_NoWait ==
    /\ pc = "delay"
    /\ lastCall' = "vkWaitForFences"
    /\ Goto("resetCommandBuffer")
    /\ UNCHANGED << loopVars, chainVars, cmdVars, syncVars, driverVars, rcVars, queue, ub, used >>

\* main 1883-1885: SDL_Delay, then vkWaitForFences(device, 1, &fence, VK_TRUE, UINT64_MAX)
WaitForFences ==
    /\ pc = "delay"
    /\ fence = "signaled"
    /\ lastCall' = "vkWaitForFences"
    /\ Goto("resetCommandBuffer")
    /\ UNCHANGED << loopVars, chainVars, cmdVars, syncVars, driverVars, rcVars, queue, ub, used >>

\* mutant of ResetCommandBuffer: the first command buffer is reset in every iteration
\* (commandBuffers[0] for commandBuffers[nextImage])
ResetCommandBuffer_ResetsFirst ==
    /\ pc = "resetCommandBuffer"
    /\ lastCall' = "vkResetCommandBuffer"
    /\ \E cb \in Read(commandBuffers, 0, "commandBuffer") :
         /\ used' = [used EXCEPT !.resetCb = cb]
         /\ ub' = ub
         /\ misuse' = misuse \cup
              (IF cb \in DOMAIN cbState /\ cbState[cb] = "pending"
               THEN {"reset a pending command buffer"} ELSE {})
         /\ cbState' = IF cb \in DOMAIN cbState THEN [cbState EXCEPT ![cb] = "initial"] ELSE cbState
         /\ cbTarget' = IF cb \in DOMAIN cbTarget THEN [cbTarget EXCEPT ![cb] = NullHandle] ELSE cbTarget
         /\ cbContents' = IF cb \in DOMAIN cbContents
                          THEN [cbContents EXCEPT ![cb] = << >>] ELSE cbContents
    /\ GotoOrCrash("loopTest", FALSE)
    /\ UNCHANGED << loopVars, chainVars, commandBuffers, oneShot, syncVars, live, destroyed,
                    rcVars, queue >>

\* main 1886: vkResetCommandBuffer(commandBuffers[nextImage], 0)
ResetCommandBuffer ==
    /\ pc = "resetCommandBuffer"
    /\ lastCall' = "vkResetCommandBuffer"
    /\ \E cb \in Read(commandBuffers, nextImage, "commandBuffer") :
         /\ used' = [used EXCEPT !.resetCb = cb]
         /\ ub' = (ub \/ ~InBounds(commandBuffers, nextImage))
         /\ misuse' = misuse \cup
              (IF cb \in DOMAIN cbState /\ cbState[cb] = "pending"
               THEN {"reset a pending command buffer"} ELSE {})
         /\ cbState' = IF cb \in DOMAIN cbState THEN [cbState EXCEPT ![cb] = "initial"] ELSE cbState
         /\ cbTarget' = IF cb \in DOMAIN cbTarget THEN [cbTarget EXCEPT ![cb] = NullHandle] ELSE cbTarget
         /\ cbContents' = IF cb \in DOMAIN cbContents
                          THEN [cbContents EXCEPT ![cb] = << >>] ELSE cbContents
    /\ GotoOrCrash("loopTest", ~InBounds(commandBuffers, nextImage))
    /\ UNCHANGED << loopVars, chainVars, commandBuffers, oneShot, syncVars, live, destroyed,
                    rcVars, queue >>

(* ----------------------------- recreation ------------------------------ *)
\* mutant of RcDeviceWaitIdle: the recreation does not wait for the device
RcDeviceWaitIdle_NoWait ==
    /\ pc = "rc_deviceWaitIdle"
    /\ lastCall' = "vkDeviceWaitIdle"
    /\ used' = [used EXCEPT !.recreated = TRUE]
    /\ Goto("rc_destroyFramebuffers")
    /\ UNCHANGED << loopVars, chainVars, cmdVars, syncVars, driverVars, rcVars, queue, ub >>

\* main 1858: vkDeviceWaitIdle(device) returns when no queue operation is pending
RcDeviceWaitIdle ==
    /\ pc = "rc_deviceWaitIdle"
    /\ queue = << >>
    /\ lastCall' = "vkDeviceWaitIdle"
    /\ used' = [used EXCEPT !.recreated = TRUE]
    /\ Goto("rc_destroyFramebuffers")
    /\ UNCHANGED << loopVars, chainVars, cmdVars, syncVars, driverVars, rcVars, queue, ub >>

\* the destroy calls of the recreation path, each over the handles the program holds
RcDestroy(here, hs, next) ==
    /\ pc = here
    /\ lastCall' = "vkDestroy"
    /\ Driver(hs, {})
    /\ rcDestroyed' = rcDestroyed \cup Range(hs)
    /\ Goto(next)
    /\ UNCHANGED << loopVars, chainVars, cmdVars, syncVars, gen, rcSnapshot, queue, ub, used >>

\* main 1859-1861
RcDestroyFramebuffers == RcDestroy("rc_destroyFramebuffers", frameBuffers, "rc_destroyViews")
\* main 1862-1864
RcDestroyViews == RcDestroy("rc_destroyViews", chainImageViews, "rc_destroySwapchain")
\* main 1865
RcDestroySwapchain == RcDestroy("rc_destroySwapchain", << swapchain >>, "rc_destroyDepth")
\* main 1867-1869
RcDestroyDepth == RcDestroy("rc_destroyDepth", << depthImageView >>, "rc_createDepth")

\* main 1871
RcCreateDepth ==
    /\ pc = "rc_createDepth"
    /\ createDepthBuffer("rc_depthBegin")
    /\ UNCHANGED << loopVars, cmdVars, syncVars, rcVars, queue, ub, used >>

\* createDepthBuffer 1056: transitionImageLayout 622, 679 and the end of its scope
RcDepthBegin == ScopedCommandBufferNew("rc_depthBegin", "createDepthBuffer", "rc_depthSubmit")
RcDepthSubmit == submitAndWaitSubmit("rc_depthSubmit", "rc_depthWait")
RcDepthWait == submitAndWaitWait("rc_depthWait", "rc_depthFree")
RcDepthFree == ScopedCommandBufferDelete("rc_depthFree", "rc_createSwapChain")

\* main 1873-1876: swapchain = VK_NULL_HANDLE, then createSwapChain or throw
RcCreateSwapChain ==
    /\ pc = "rc_createSwapChain"
    /\ createSwapChain(NullHandle, "rc_getImages", TRUE)
    /\ UNCHANGED << loopVars, cmdVars, syncVars, rcVars, queue, ub, used >>

\* main 1877-1879
RcGetImages ==
    /\ pc = "rc_getImages"
    /\ getSwapChainImageHandles("rc_makeViews", TRUE)
    /\ UNCHANGED << loopVars, cmdVars, syncVars, rcVars, queue, ub, used >>

\* main 1880
RcMakeViews ==
    /\ pc = "rc_makeViews"
    /\ makeChainImageViews(chainImageViews, "rc_makeFramebuffers")
    /\ UNCHANGED << loopVars, cmdVars, syncVars, rcVars, queue, ub, used >>

\* mutant of RcMakeFramebuffers: the recreation ends the iteration (a continue after
\* makeFramebuffers)
RcMakeFramebuffers_Continue ==
    /\ pc = "rc_makeFramebuffers"
    /\ makeFramebuffers(frameBuffers, "loopTest")
    /\ UNCHANGED << loopVars, cmdVars, syncVars, rcVars, queue, used >>

\* main 1881
RcMakeFramebuffers ==
    /\ pc = "rc_makeFramebuffers"
    /\ makeFramebuffers(frameBuffers, "delay")
    /\ UNCHANGED << loopVars, cmdVars, syncVars, rcVars, queue, used >>

(* ------------------------------ teardown ------------------------------- *)
\* mutant of ExitQueueWaitIdle: the exit path does not wait for the queue
ExitQueueWaitIdle_NoWait ==
    /\ pc = "x_queueWaitIdle"
    /\ lastCall' = "vkQueueWaitIdle"
    /\ Goto("x_freeCommandBuffers")
    /\ UNCHANGED << loopVars, chainVars, cmdVars, syncVars, driverVars, rcVars, queue, ub, used >>

\* main 1889: vkQueueWaitIdle(graphicsQueue) before anything is released
ExitQueueWaitIdle ==
    /\ pc = "x_queueWaitIdle"
    /\ queue = << >>
    /\ lastCall' = "vkQueueWaitIdle"
    /\ Goto("x_freeCommandBuffers")
    /\ UNCHANGED << loopVars, chainVars, cmdVars, syncVars, driverVars, rcVars, queue, ub, used >>

\* the release calls of the exit path, each over the handles the program holds
ExitDestroy(here, hs, next) ==
    /\ pc = here
    /\ lastCall' = "vkDestroy"
    /\ Driver(hs, {})
    /\ IF next = "returned" THEN Return(1) ELSE Goto(next)
    /\ UNCHANGED << loopVars, chainVars, cmdVars, syncVars, rcVars, queue, ub, used >>

\* main 1891-1893
ExitFreeCommandBuffers ==
    ExitDestroy("x_freeCommandBuffers", commandBuffers, "x_destroyDescriptorPool")
\* main 1901-1902
ExitDestroyDescriptorPool ==
    ExitDestroy("x_destroyDescriptorPool", << descriptorPool >>, "x_destroyTexture")
\* main 1905-1908
ExitDestroyTexture == ExitDestroy("x_destroyTexture", << TextureH >>, "x_destroyDepth")
\* main 1910-1912
ExitDestroyDepth == ExitDestroy("x_destroyDepth", << depthImageView >>, "x_destroySync")
\* main 1914-1916
ExitDestroySync ==
    ExitDestroy("x_destroySync",
                << SemaphoreH("imageAvailable"), SemaphoreH("renderFinished"), FenceH >>,
                "x_destroyShaders")
\* main 1917-1918
ExitDestroyShaders ==
    ExitDestroy("x_destroyShaders", << vertShader, fragShader >>, "x_destroyFramebuffers")
\* main 1922-1924
ExitDestroyFramebuffers == ExitDestroy("x_destroyFramebuffers", frameBuffers, "x_destroyViews")
\* main 1925-1927
ExitDestroyViews == ExitDestroy("x_destroyViews", chainImageViews, "x_destroySwapchain")
\* main 1928-1936: the swapchain, the device and the instance go; main returns 1
ExitDestroySwapchain == ExitDestroy("x_destroySwapchain", << swapchain >>, "returned")

(* ---------------- the device and the presentation engine --------------- *)
Sem(name) == IF name = "imageAvailable" THEN imageAvailableSemaphore ELSE renderFinishedSemaphore

\* the presentation engine signals the semaphore given to the last acquire
SignalAcquireSemaphore ==
    /\ Running
    /\ "semaphore" \in acquirePending
    /\ acquirePending' = acquirePending \ {"semaphore"}
    /\ imageAvailableSemaphore' = [count |-> imageAvailableSemaphore.count + 1, by |-> frame]
    /\ UNCHANGED << renderFinishedSemaphore, fence, semWaited >>
    /\ UNCHANGED << pc, exitCode, failed, helper, loopVars, chainVars, cmdVars, driverVars, rcVars, queue, ub,
                    lastCall, used >>

\* the presentation engine signals the fence given to the last acquire
SignalAcquireFence ==
    /\ Running
    /\ "fence" \in acquirePending
    /\ acquirePending' = acquirePending \ {"fence"}
    /\ fence' = "signaled"
    /\ UNCHANGED << imageAvailableSemaphore, renderFinishedSemaphore, semWaited >>
    /\ UNCHANGED << pc, exitCode, failed, helper, loopVars, chainVars, cmdVars, driverVars, rcVars, queue, ub,
                    lastCall, used >>

\* the queue executes its oldest operation once the semaphores it waits on are
\* signalled: it consumes them, runs, and signals its own semaphores
ExecuteQueueHead ==
    /\ Running
    /\ queue # << >>
    /\ LET op == Head(queue)
           consumed(name, sem) == IF name \in op.wait THEN [sem EXCEPT !.count = @ - 1] ELSE sem
           signalled(name, sem) == IF name \in op.signal
                                   THEN [count |-> sem.count + 1, by |-> op.frame] ELSE sem
       IN /\ \A name \in op.wait : Sem(name).count > 0
          /\ imageAvailableSemaphore' =
                signalled("imageAvailable", consumed("imageAvailable", imageAvailableSemaphore))
          /\ renderFinishedSemaphore' =
                signalled("renderFinished", consumed("renderFinished", renderFinishedSemaphore))
          /\ semWaited' = [name \in {"imageAvailable", "renderFinished"} |->
                IF name \in op.wait
                THEN [by |-> Sem(name).by, waiter |-> op.frame, op |-> op.op]
                ELSE semWaited[name]]
          /\ cbState' = IF op.cb \in DOMAIN cbState
                        THEN [cbState EXCEPT ![op.cb] = "executable"] ELSE cbState
          /\ queue' = Tail(queue)
    /\ UNCHANGED << fence, acquirePending, commandBuffers, cbTarget, cbContents, oneShot >>
    /\ UNCHANGED << pc, exitCode, failed, helper, loopVars, chainVars, driverVars, rcVars, ub, lastCall, used >>

Loop ==
    \/ LoopTest
    \/ PollEvents
    \/ ResetFences
    \/ AcquireNextImage
    \/ RecordRenderPass
    \/ QueueSubmit
    \/ QueueWaitIdle
    \/ PresentQueue
    \/ WaitForFences
    \/ ResetCommandBuffer

Recreate ==
    \/ RcDeviceWaitIdle
    \/ RcDestroyFramebuffers
    \/ RcDestroyViews
    \/ RcDestroySwapchain
    \/ RcDestroyDepth
    \/ RcCreateDepth
    \/ RcDepthBegin
    \/ RcDepthSubmit
    \/ RcDepthWait
    \/ RcDepthFree
    \/ RcCreateSwapChain
    \/ RcGetImages
    \/ RcMakeViews
    \/ RcMakeFramebuffers

Teardown ==
    \/ ExitQueueWaitIdle
    \/ ExitFreeCommandBuffers
    \/ ExitDestroyDescriptorPool
    \/ ExitDestroyTexture
    \/ ExitDestroyDepth
    \/ ExitDestroySync
    \/ ExitDestroyShaders
    \/ ExitDestroyFramebuffers
    \/ ExitDestroyViews
    \/ ExitDestroySwapchain

Device ==
    \/ SignalAcquireSemaphore
    \/ SignalAcquireFence
    \/ ExecuteQueueHead

Next == Setup \/ Loop \/ Recreate \/ Teardown \/ Device

Spec == Init /\ [][Next]_vars

(* ------------- failures of calls whose result is not looked at ---------- *)
\* the call made at position here returns a non-success result and has no effect; the
\* caller does not look at the result and goes on to the next statement
IgnoredFailure(here, call, next, u) ==
    /\ pc = here
    /\ Cardinality(failed) < MaxIgnoredFailures
    /\ lastCall' = call
    /\ failed' = failed \cup {call}
    /\ pc' = next
    /\ exitCode' = exitCode
    /\ helper' = helper
    /\ used' = u
    /\ UNCHANGED << loopVars, chainVars, cmdVars, syncVars, driverVars, rcVars, queue, ub >>

\* loadShaderModule 1359: the bool createShaderModule returns is dropped
LoadShadersFails ==
    IgnoredFailure("s_loadShaders", "vkCreateShaderModule", "s_createTexture", used)
\* createDescriptorSet 1460: the VkResult of vkCreateDescriptorPool is dropped
CreateDescriptorPoolFails ==
    IgnoredFailure("s_createDescriptorSet", "vkCreateDescriptorPool", "s_createDepth", used)
\* main 1844
ResetFencesFails == IgnoredFailure("resetFences", "vkResetFences", "acquire", used)
\* main 1858
RcDeviceWaitIdleFails ==
    IgnoredFailure("rc_deviceWaitIdle", "vkDeviceWaitIdle", "rc_destroyFramebuffers",
                   [used EXCEPT !.recreated = TRUE])
\* main 1885
WaitForFencesFails == IgnoredFailure("delay", "vkWaitForFences", "resetCommandBuffer", used)
\* main 1886
ResetCommandBufferFails ==
    IgnoredFailure("resetCommandBuffer", "vkResetCommandBuffer", "loopTest", used)
\* main 1889
ExitQueueWaitIdleFails ==
    IgnoredFailure("x_queueWaitIdle", "vkQueueWaitIdle", "x_freeCommandBuffers", used)

IgnoredFailures ==
    \/ LoadShadersFails
    \/ CreateDescriptorPoolFails
    \/ ResetFencesFails
    \/ RcDeviceWaitIdleFails
    \/ WaitForFencesFails
    \/ ResetCommandBufferFails
    \/ ExitQueueWaitIdleFails

\* the program with the calls whose result it ignores allowed to fail
NextFail == Next \/ IgnoredFailures

SpecFail == Init /\ [][NextFail]_vars

\* the CPU thread of main keeps running while it has a statement to run, and the device
\* keeps executing queued work and delivering the signals it owes
LiveSpec == Spec /\ WF_vars(Setup \/ Loop \/ Recreate \/ Teardown) /\ WF_vars(Device)

(* -------------------- helper functions on their own -------------------- *)
\* A helper that computes its result from its arguments alone is examined in runs of
\* its own: the arguments are drawn at the start, one step calls the helper, and main
\* does not run.
MaxTextureSize == 8     \* largest width and height of the texture file

\* the result slot of a helper that has not been called yet
Pending == [pending |-> TRUE]
\* the call of the helper fn with the arguments in, before it is made
CallOf(fn, in) == [fn |-> fn, in |-> in, done |-> FALSE, out |-> Pending]

Max(a, b) == IF a > b THEN a ELSE b

\* std::floor(log2(n)) for an integer n >= 1 (exact in double precision for 32-bit n)
RECURSIVE FloorLog2(_)
FloorLog2(n) == IF n <= 1 THEN 0 ELSE 1 + FloorLog2(n \div 2)

\* mutant of mipLevels: the + 1 is left out
mipLevels_NoPlusOne(width, height) == FloorLog2(Max(width, height))

\* createImageFromTGAFile 843: size_t mipLevels = std::floor(log2(std::max(width, height))) + 1
mipLevels(width, height) == FloorLog2(Max(width, height)) + 1

\* a vkCmdPipelineBarrier with one image barrier over count mip levels from level base
Barrier(base, count, old, new) ==
    [cmd |-> "vkCmdPipelineBarrier", base |-> base, count |-> count, old |-> old, new |-> new]

\* transitionImageLayout 645-666: the pairs of layouts it accepts; any other pair throws
SupportedTransitions ==
    { << "UNDEFINED", "TRANSFER_DST_OPTIMAL" >>,
      << "TRANSFER_DST_OPTIMAL", "SHADER_READ_ONLY_OPTIMAL" >>,
      << "UNDEFINED", "DEPTH_STENCIL_ATTACHMENT_OPTIMAL" >> }

\* transitionImageLayout 621-680: one barrier from oldLayout to newLayout over the
\* levels 0 .. levels-1
transitionImageLayout(levels, oldLayout, newLayout) ==
    IF << oldLayout, newLayout >> \in SupportedTransitions
    THEN << Barrier(0, levels, oldLayout, newLayout) >>
    ELSE << [cmd |-> "throw"] >>

\* copyBufferToImage 682-705: the whole buffer into level 0, named as TRANSFER_DST_OPTIMAL
copyBufferToImage(width, height) ==
    << [cmd |-> "vkCmdCopyBufferToImage", level |-> 0, layout |-> "TRANSFER_DST_OPTIMAL",
        extent |-> << width, height >>] >>

\* generateMipmaps 763-792: the iterations i, i+1, ... of the loop, entered with
\* mipWidth and mipHeight
RECURSIVE MipLoop(_, _, _, _)
MipLoop(i, mipWidth, mipHeight, mipLevelCount) ==
    IF i >= mipLevelCount THEN << >>
    ELSE << Barrier(i - 1, 1, "TRANSFER_DST_OPTIMAL", "TRANSFER_SRC_OPTIMAL"),
            [cmd |-> "vkCmdBlitImage",
             src |-> i - 1, srcLayout |-> "TRANSFER_SRC_OPTIMAL",
             srcExtent |-> << mipWidth, mipHeight >>,
             dst |-> i, dstLayout |-> "TRANSFER_DST_OPTIMAL",
             dstExtent |-> << IF mipWidth > 1 THEN mipWidth \div 2 ELSE 1,
                              IF mipHeight > 1 THEN mipHeight \div 2 ELSE 1 >>],
            Barrier(i - 1, 1, "TRANSFER_SRC_OPTIMAL", "SHADER_READ_ONLY_OPTIMAL") >>
         \o MipLoop(i + 1,
                    IF mipWidth > 1 THEN mipWidth \div 2 ELSE mipWidth,
                    IF mipHeight > 1 THEN mipHeight \div 2 ELSE mipHeight,
                    mipLevelCount)

\* generateMipmaps 727-807: the loop, then the barrier of the last level
generateMipmaps(width, height, mipLevelCount) ==
    MipLoop(1, width, height, mipLevelCount)
    \o << Barrier(mipLevelCount - 1, 1, "TRANSFER_DST_OPTIMAL", "SHADER_READ_ONLY_OPTIMAL") >>

\* createImageFromTGAFile 843-890: the image is created with mipLevels levels in
\* VK_IMAGE_LAYOUT_UNDEFINED; the commands its four helpers submit, in order
createImageFromTGAFile(width, height) ==
    [mipLevels |-> mipLevels(width, height),
     commands |->
         transitionImageLayout(1, "UNDEFINED", "TRANSFER_DST_OPTIMAL")
         \o copyBufferToImage(width, height)
         \o generateMipmaps(width, height, mipLevels(width, height))
         \o transitionImageLayout(1, "TRANSFER_DST_OPTIMAL", "SHADER_READ_ONLY_OPTIMAL")]

\* the layout of every mip level (level l at index l + 1) of an image of m levels
\* created in VK_IMAGE_LAYOUT_UNDEFINED, after the device has executed the first k
\* commands of cmds: a barrier leaves the levels of its range in its newLayout
RECURSIVE LayoutsAfter(_, _, _)
LayoutsAfter(cmds, k, m) ==
    IF k = 0 THEN [l \in 1..m |-> "UNDEFINED"]
    ELSE LET prev == LayoutsAfter(cmds, k - 1, m)
             c == cmds[k]
         IN IF c.cmd = "vkCmdPipelineBarrier"
            THEN [l \in 1..m |-> IF l - 1 \in c.base..(c.base + c.count - 1)
                                 THEN c.new ELSE prev[l]]
            ELSE prev

\* the texture files: every width and height up to the bound
TextureCalls ==
    { CallOf("createImageFromTGAFile", [width |-> w, height |-> h]) :
        w \in 1..MaxTextureSize, h \in 1..MaxTextureSize }

\* main 1775: createImageFromTGAFile on a file of the drawn size
CallCreateImageFromTGAFile ==
    /\ helper.fn = "createImageFromTGAFile" /\ ~helper.done
    /\ helper' = [helper EXCEPT !.done = TRUE,
                                !.out = createImageFromTGAFile(helper.in.width, helper.in.height)]
    /\ UNCHANGED mainVars

\* globals 23-24: the format and the colour space the program prefers
surfaceFormat == "VK_FORMAT_B8G8R8A8_SRGB"
colorSpace == "VK_COLOR_SPACE_SRGB_NONLINEAR_KHR"

\* getSurfaceFormat 498-543 on the list found_formats the surface reports (at least one
\* entry, as the API guarantees); queryOk is FALSE when one of the two queries fails,
\* and outFormat is then not written
getSurfaceFormat(queryOk, found_formats) ==
    IF ~queryOk THEN [ret |-> FALSE, outFormat |-> Garbage]
    ELSE IF Len(found_formats) = 1 /\ found_formats[1].format = "VK_FORMAT_UNDEFINED"
    THEN [ret |-> TRUE, outFormat |-> [format |-> surfaceFormat, colorSpace |-> colorSpace]]
    ELSE IF \E outer \in 1..Len(found_formats) : found_formats[outer].format = surfaceFormat
    THEN [ret |-> TRUE,
          outFormat |->
              [format |-> surfaceFormat,
               colorSpace |->
                   IF \E inner \in 1..Len(found_formats) :
                          found_formats[inner].colorSpace = colorSpace
                   THEN colorSpace
                   ELSE found_formats[1].colorSpace]]
    ELSE [ret |-> TRUE, outFormat |-> found_formats[1]]

MaxFormats == 2         \* longest list of surface formats

\* the (format, colorSpace) pairs a surface may report
SurfaceFormats ==
    [format : {"VK_FORMAT_UNDEFINED", surfaceFormat, "VK_FORMAT_R8G8B8A8_UNORM"},
     colorSpace : {colorSpace, "VK_COLOR_SPACE_DISPLAY_P3_NONLINEAR_EXT",
                   "VK_COLOR_SPACE_EXTENDED_SRGB_LINEAR_EXT"}]

SeqsUpTo(S, n) == UNION { [1..k -> S] : k \in 1..n }

SurfaceFormatCalls ==
    { CallOf("getSurfaceFormat", [queryOk |-> ok, found_formats |-> f]) :
        ok \in BOOLEAN, f \in SeqsUpTo(SurfaceFormats, MaxFormats) }

\* createSwapChain 937-940
CallGetSurfaceFormat ==
    /\ helper.fn = "getSurfaceFormat" /\ ~helper.done
    /\ helper' = [helper EXCEPT !.done = TRUE,
                                !.out = getSurfaceFormat(helper.in.queryOk, helper.in.found_formats)]
    /\ UNCHANGED mainVars

\* getNumberOfSwapImages 438-441 (unsigned arithmetic; the counts drawn are far from
\* the wrap at 2^32)
getNumberOfSwapImages(capabilities) ==
    LET number == capabilities.minImageCount + 1
    IN IF number > capabilities.maxImageCount THEN capabilities.minImageCount ELSE number

MaxSurfaceImages == 4   \* largest image count a surface reports as its limit

\* the image counts of a surface: minImageCount is at least 1, maxImageCount is 0 (no
\* upper limit) or at least minImageCount
ImageCountCalls ==
    { CallOf("getNumberOfSwapImages", c) :
        c \in { c \in [minImageCount : 1..MaxSurfaceImages, maxImageCount : 0..MaxSurfaceImages] :
                   c.maxImageCount = 0 \/ c.maxImageCount >= c.minImageCount } }

\* createSwapChain 916
CallGetNumberOfSwapImages ==
    /\ helper.fn = "getNumberOfSwapImages" /\ ~helper.done
    /\ helper' = [helper EXCEPT !.done = TRUE,
                                !.out = [value |-> getNumberOfSwapImages(helper.in)]]
    /\ UNCHANGED mainVars

\* globals 19-20: the configured window size
windowWidth == 1280
windowHeight == 720

\* a 32-bit unsigned value is held as its two 16-bit halves << high, low >>, which keeps
\* 0xFFFFFFFF and 0xFFFFFFF apart from each other and from every real size
U32(n) == << n \div 65536, n % 65536 >>
Less(a, b) == a[1] < b[1] \/ (a[1] = b[1] /\ a[2] < b[2])
LessEq(a, b) == a = b \/ Less(a, b)

\* clamp 49-52: (value < min) ? min : (value > max) ? max : value
clamp(value, min, max) ==
    IF Less(value, min) THEN min ELSE IF Less(max, value) THEN max ELSE value

\* the value of currentExtent.width and .height with which the API says that the
\* surface size is decided by the swapchain: 0xFFFFFFFF
UndefinedExtent == << 65535, 65535 >>
\* getSwapImageSize 448: the literal currentExtent.width is compared with, 0xFFFFFFF
ComparedExtent == << 4095, 65535 >>

\* getSwapImageSize 443-455
getSwapImageSize(capabilities) ==
    IF capabilities.currentExtent.width = ComparedExtent
    THEN [width |-> clamp(U32(windowWidth), capabilities.minImageExtent.width,
                          capabilities.maxImageExtent.width),
          height |-> clamp(U32(windowHeight), capabilities.minImageExtent.height,
                           capabilities.maxImageExtent.height)]
    ELSE capabilities.currentExtent

\* the sizes a surface may report: widths and heights below, at and above the window's
SurfaceWidths == { U32(n) : n \in {1, 640, 1280, 1920} }
SurfaceHeights == { U32(n) : n \in {1, 720, 1080} }
SurfaceExtents == [width : SurfaceWidths, height : SurfaceHeights]
Within(e, lo, hi) ==
    /\ LessEq(lo.width, e.width) /\ LessEq(e.width, hi.width)
    /\ LessEq(lo.height, e.height) /\ LessEq(e.height, hi.height)

\* the capabilities of a surface: minImageExtent <= maxImageExtent, and currentExtent
\* is either between them or the undefined extent in both fields
SurfaceCapabilities ==
    { c \in [currentExtent : SurfaceExtents \cup {[width |-> UndefinedExtent,
                                                    height |-> UndefinedExtent]},
             minImageExtent : SurfaceExtents, maxImageExtent : SurfaceExtents] :
        /\ Within(c.minImageExtent, c.minImageExtent, c.maxImageExtent)
        /\ \/ c.currentExtent.width = UndefinedExtent
           \/ Within(c.currentExtent, c.minImageExtent, c.maxImageExtent) }

ImageSizeCalls == { CallOf("getSwapImageSize", c) : c \in SurfaceCapabilities }

\* createSwapChain 920
CallGetSwapImageSize ==
    /\ helper.fn = "getSwapImageSize" /\ ~helper.done
    /\ helper' = [helper EXCEPT !.done = TRUE, !.out = getSwapImageSize(helper.in)]
    /\ UNCHANGED mainVars

\* mutant of getPresentationMode: the fallback to FIFO is left out
getPresentationMode_NoFallback(countOk, modesOk, availableModes, ioMode) ==
    IF ~countOk \/ ~modesOk THEN [ret |-> FALSE, ioMode |-> ioMode]
    ELSE [ret |-> TRUE, ioMode |-> ioMode]

\* getPresentationMode 401-428: countOk and modesOk are the outcomes of the two
\* queries; the result is the bool returned and the value ioMode is left with
getPresentationMode(countOk, modesOk, availableModes, ioMode) ==
    IF ~countOk THEN [ret |-> FALSE, ioMode |-> ioMode]
    ELSE IF ~modesOk THEN [ret |-> FALSE, ioMode |-> ioMode]
    ELSE IF \E i \in 1..Len(availableModes) : availableModes[i] = ioMode
    THEN [ret |-> TRUE, ioMode |-> ioMode]
    ELSE [ret |-> TRUE, ioMode |-> "VK_PRESENT_MODE_FIFO_KHR"]

MaxModes == 2           \* longest list of present modes

PresentModes == {"VK_PRESENT_MODE_IMMEDIATE_KHR", "VK_PRESENT_MODE_MAILBOX_KHR",
                 "VK_PRESENT_MODE_FIFO_KHR", "VK_PRESENT_MODE_FIFO_RELAXED_KHR"}

PresentModeCalls ==
    { CallOf("getPresentationMode",
             [countOk |-> c, modesOk |-> m, availableModes |-> a, ioMode |-> p]) :
        c \in BOOLEAN, m \in BOOLEAN,
        a \in {<< >>} \cup SeqsUpTo(PresentModes, MaxModes), p \in PresentModes }

\* createSwapChain 910-913
CallGetPresentationMode ==
    /\ helper.fn = "getPresentationMode" /\ ~helper.done
    /\ helper' = [helper EXCEPT !.done = TRUE,
                                !.out = getPresentationMode(helper.in.countOk, helper.in.modesOk,
                                                            helper.in.availableModes,
                                                            helper.in.ioMode)]
    /\ UNCHANGED mainVars

\* a 32-bit mask is held as the set of the positions of its set bits: a & b is the
\* intersection, 1 << i is the mask with bit i alone
BitAnd(a, b) == a \cap b
ShiftLeftOne(i) == {i}

\* mutant of FindFrom: a memory type is taken when it has any of the requested flags
RECURSIVE FindFrom_AnyFlag(_, _, _, _)
FindFrom_AnyFlag(i, memProperties, memoryTypeBits, properties) ==
    IF i >= memProperties.memoryTypeCount THEN [throws |-> TRUE, index |-> -1]
    ELSE IF /\ BitAnd(memoryTypeBits, ShiftLeftOne(i)) # {}
            /\ (BitAnd(memProperties.memoryTypes[i], properties) # {} \/ properties = {})
    THEN [throws |-> FALSE, index |-> i]
    ELSE FindFrom_AnyFlag(i + 1, memProperties, memoryTypeBits, properties)

\* findMemoryType 488-495: the loop from index i on; the throw when it runs out
RECURSIVE FindFrom(_, _, _, _)
FindFrom(i, memProperties, memoryTypeBits, properties) ==
    IF i >= memProperties.memoryTypeCount THEN [throws |-> TRUE, index |-> -1]
    ELSE IF /\ BitAnd(memoryTypeBits, ShiftLeftOne(i)) # {}
            /\ BitAnd(memProperties.memoryTypes[i], properties) = properties
    THEN [throws |-> FALSE, index |-> i]
    ELSE FindFrom(i + 1, memProperties, memoryTypeBits, properties)

\* findMemoryType 484-496, on the memory properties the physical device reports
findMemoryType(memProperties, memoryTypeBits, properties) ==
    FindFrom(0, memProperties, memoryTypeBits, properties)

\* VK_MAX_MEMORY_TYPES: the length of VkPhysicalDeviceMemoryProperties::memoryTypes
MaxMemoryTypes == 32
\* the indices at which the memory types and the mask drawn differ from zero
TypeSlots == {0, 1, MaxMemoryTypes - 1}
\* bit positions of VK_MEMORY_PROPERTY_DEVICE_LOCAL_BIT and _HOST_VISIBLE_BIT
PropertyBits == {0, 1}

\* the memory properties of a device: a count of 0, 1, 2 or 32 types, with flags at the
\* slots and none elsewhere
MemoryProperties ==
    { [memoryTypeCount |-> n,
       memoryTypes |-> [i \in 0..(MaxMemoryTypes - 1) |-> IF i \in TypeSlots THEN f[i] ELSE {}]] :
        n \in {0, 1, 2, MaxMemoryTypes}, f \in [TypeSlots -> SUBSET PropertyBits] }

MemoryTypeCalls ==
    { CallOf("findMemoryType", [memProperties |-> mp, memoryTypeBits |-> b, properties |-> p]) :
        mp \in MemoryProperties, b \in SUBSET TypeSlots, p \in SUBSET PropertyBits }

\* createBuffer 565, createImageFromTGAFile 874, createDepthBuffer 1042
CallFindMemoryType ==
    /\ helper.fn = "findMemoryType" /\ ~helper.done
    /\ helper' = [helper EXCEPT !.done = TRUE,
                                !.out = findMemoryType(helper.in.memProperties,
                                                       helper.in.memoryTypeBits,
                                                       helper.in.properties)]
    /\ UNCHANGED mainVars

HelperCalls ==
    TextureCalls \cup SurfaceFormatCalls \cup ImageCountCalls \cup ImageSizeCalls
    \cup PresentModeCalls \cup MemoryTypeCalls

HelperInit == MainInit /\ helper \in HelperCalls

HelperNext ==
    \/ CallCreateImageFromTGAFile
    \/ CallGetSurfaceFormat
    \/ CallGetNumberOfSwapImages
    \/ CallGetSwapImageSize
    \/ CallGetPresentationMode
    \/ CallFindMemoryType

HelperSpec == HelperInit /\ [][HelperNext]_vars

(* ------------------------------ claims --------------------------------- *)
\* positions of main: the frame loop, the destroy half and the create half of the
\* recreation path
LoopPcs == {"loopTest", "poll", "resetFences", "acquire", "record", "submit", "submitWait",
            "present", "delay", "resetCommandBuffer"}
RcDestroyPcs == {"rc_destroyFramebuffers", "rc_destroyViews", "rc_destroySwapchain",
                 "rc_destroyDepth"}
RcCreatePcs == {"rc_createDepth", "rc_depthBegin", "rc_depthSubmit", "rc_depthWait",
                "rc_depthFree", "rc_createSwapChain", "rc_getImages", "rc_makeViews",
                "rc_makeFramebuffers"}
RcPcs == {"rc_deviceWaitIdle"} \cup RcDestroyPcs \cup RcCreatePcs
ChainKinds == {"framebuffer", "view", "swapchain"}

\* C1: whenever the program is in the frame loop (setup is over, and so is every
\* recreation begun so far), chainImageViews and frameBuffers both have as many
\* entries as the current swapchain has images, whatever count the swapchain reported.
C1_CountsEqualImageCount ==
    pc \in LoopPcs =>
        /\ Len(chainImageViews) = swapchain.count
        /\ Len(frameBuffers) = swapchain.count

\* C2: at every record step the expression frameBuffers[nextImage] names an element
\* of the vector, and that element is a live framebuffer made for an image of the
\* current swapchain.
C2_RecordsLiveFramebuffer ==
    pc = "record" =>
        /\ InBounds(frameBuffers, nextImage)
        /\ At(frameBuffers, nextImage) \in live
        /\ At(frameBuffers, nextImage).view.image.sc = swapchain

\* C3: in the recreation path nothing new of the swapchain chain exists while the
\* destroy calls run, and once the create calls begin the handles destroyed in this
\* recreation are exactly the framebuffers, image views and swapchain that were live
\* when it began, none of them still live.
C3_DestroysExactlyOldBeforeCreate ==
    /\ pc \in RcDestroyPcs =>
         ~ \E h \in live : h.kind \in ChainKinds /\ h \notin rcSnapshot
    /\ pc \in RcCreatePcs =>
         /\ rcSnapshot \cap live = {}
         /\ { h \in rcDestroyed : h.kind \in ChainKinds } = rcSnapshot

C5_UsesAcquiredIndexOnly ==
    /\ pc \in {"submit", "submitWait", "present"} =>
         /\ InBounds(frameBuffers, nextImage)
         /\ InBounds(commandBuffers, nextImage)
         /\ used.recFb = At(frameBuffers, nextImage)
         /\ used.recCb = At(commandBuffers, nextImage)
    /\ pc \in {"submitWait", "present"} => used.subCb = At(commandBuffers, nextImage)
    /\ used.presSc # NullHandle =>
         used.presSc = used.acquiredFrom /\ used.presIdx = nextImage

\* C6: every submission waits on imageAvailable and signals renderFinished, every
\* present waits on renderFinished; the wait a submission executes consumes the signal
\* of its own iteration's acquire, the wait a present executes consumes the signal of
\* its own iteration's submission; neither semaphore ever holds two unconsumed
\* signals, and imageAvailable holds none when the next acquire is made.
C6_SemaphoreSignalsConsumedOnce ==
    /\ imageAvailableSemaphore.count \in {0, 1}
    /\ renderFinishedSemaphore.count \in {0, 1}
    /\ \A i \in 1..Len(queue) :
         /\ queue[i].op = "submit" =>
              queue[i].wait = {"imageAvailable"} /\ queue[i].signal = {"renderFinished"}
         /\ queue[i].op = "present" => queue[i].wait = {"renderFinished"}
    /\ semWaited.imageAvailable.op # "none" =>
         /\ semWaited.imageAvailable.op = "submit"
         /\ semWaited.imageAvailable.by = semWaited.imageAvailable.waiter
    /\ semWaited.renderFinished.op # "none" =>
         /\ semWaited.renderFinished.op = "present"
         /\ semWaited.renderFinished.by = semWaited.renderFinished.waiter
    /\ pc = "acquire" =>
         imageAvailableSemaphore.count = 0 /\ "semaphore" \notin acquirePending
    /\ "acquire with a semaphore in use" \notin misuse

\* C6 witness: the present of the second iteration has consumed the render-finished
\* signal of that iteration, after a first iteration whose present was out of date.
C6_Witness ==
    /\ gen >= 1
    /\ semWaited.renderFinished = [by |-> 2, waiter |-> 2, op |-> "present"]
    /\ semWaited.imageAvailable = [by |-> 2, waiter |-> 2, op |-> "submit"]

\* C7: the queue never holds more than one frame submission, at most one command
\* buffer is pending, and none is when main is about to present, to reset the
\* command buffer, to record or to submit.
C7_OneFrameInFlight ==
    /\ Cardinality({ i \in 1..Len(queue) : queue[i].op = "submit" }) <= 1
    /\ Cardinality({ h \in DOMAIN cbState : cbState[h] = "pending" }) <= 1
    /\ pc \in {"present", "resetCommandBuffer", "record", "submit"} =>
         /\ \A i \in 1..Len(queue) : queue[i].op # "submit"
         /\ \A h \in DOMAIN cbState : cbState[h] # "pending"

\* C7 witness: main is about to record the second frame while the present of the
\* first is still queued.
C7_Witness ==
    pc = "record" /\ frame = 2 /\ Len(queue) = 1 /\ queue[1].op = "present"

\* C8: main is in the recreation path only after a present that reported out of
\* date (and an acquire that succeeded), an out-of-date present always enters it, and
\* after any other non-success present result or any non-success acquire result the
\* process has aborted without entering it.
C8_RecreateIffPresentOutOfDate ==
    /\ (pc \in RcPcs \/ used.recreated) =>
         /\ results.present = "VK_ERROR_OUT_OF_DATE_KHR"
         /\ results.acquire = "VK_SUCCESS"
    /\ results.present = "VK_ERROR_OUT_OF_DATE_KHR" =>
         pc = "rc_deviceWaitIdle" \/ used.recreated
    /\ results.present \notin {"none", "VK_SUCCESS", "VK_ERROR_OUT_OF_DATE_KHR"} =>
         pc = "aborted" /\ ~used.recreated
    /\ results.acquire \notin {"none", "VK_SUCCESS"} =>
         pc = "aborted" /\ ~used.recreated /\ results.present = "none"

\* C8 witness: the recreation path has been entered after an out-of-date present.
C8_Witness ==
    /\ pc = "rc_destroyFramebuffers"
    /\ used.recreated
    /\ results.present = "VK_ERROR_OUT_OF_DATE_KHR"

\* C9: after an acquire whose result is neither success nor out of date the process
\* has aborted, the acquire is the last call main made, and the iteration recorded,
\* submitted and presented nothing.
C9_AcquireFailureAborts ==
    results.acquire \notin {"none", "VK_SUCCESS", "VK_ERROR_OUT_OF_DATE_KHR"} =>
        /\ pc = "aborted"
        /\ lastCall = "vkAcquireNextImageKHR"
        /\ used.recFb = NullHandle /\ used.recCb = NullHandle
        /\ used.subCb = NullHandle
        /\ used.presSc = NullHandle
        /\ \A i \in 1..Len(queue) : queue[i].frame # frame

\* C9 witness: the acquire of the second iteration has lost the device.
C9_Witness ==
    results.acquire = "VK_ERROR_DEVICE_LOST" /\ pc = "aborted" /\ frame = 2

ExitDestroyPcs == {"x_freeCommandBuffers", "x_destroyDescriptorPool", "x_destroyTexture",
                   "x_destroyDepth",
                   "x_destroySync", "x_destroyShaders", "x_destroyFramebuffers",
                   "x_destroyViews", "x_destroySwapchain"}
ExitPcs == {"x_queueWaitIdle"} \cup ExitDestroyPcs

C12_QuitReachesTeardown ==
    /\ [](pc \in ExitPcs \/ (pc = "returned" /\ exitCode = 1) => done)
    /\ [](pc = "poll" => ~done)
    /\ (done ~> (pc \in ExitPcs \/ pc = "returned" \/ pc = "aborted"))

\* C13: done changes only at the event poll, and the exit path is entered only from
\* the loop test; when it is entered, the iteration that saw the quit event has
\* acquired, recorded, submitted, presented and reset its command buffer, and if its
\* present was out of date the recreation has run to its last step.
C13_QuitSeenOnlyAtPoll ==
    /\ [][done' # done => pc = "poll"]_vars
    /\ [][pc' \in ExitPcs /\ pc \notin ExitPcs => pc = "loopTest" /\ done]_vars
    /\ [](pc \in ExitPcs =>
            /\ results.acquire = "VK_SUCCESS"
            /\ used.acquiredFrom # NullHandle
            /\ used.recFb # NullHandle /\ used.recCb # NullHandle
            /\ used.subCb # NullHandle
            /\ used.presSc # NullHandle
            /\ used.resetCb # NullHandle
            /\ results.present \in {"VK_SUCCESS", "VK_ERROR_OUT_OF_DATE_KHR"}
            /\ results.present = "VK_ERROR_OUT_OF_DATE_KHR" =>
                 /\ used.recreated
                 /\ swapchain.gen = gen /\ frameBuffers[1].gen = gen
                 /\ pc = "x_queueWaitIdle" => swapchain \in live /\ frameBuffers[1] \in live)

\* C13 witness: the loop has ended after an iteration that saw the quit event at its
\* poll and whose present was out of date.
C13_Witness ==
    /\ pc = "x_queueWaitIdle" /\ done
    /\ results.present = "VK_ERROR_OUT_OF_DATE_KHR" /\ used.recreated
    /\ used.resetCb # NullHandle

\* the calls the spec sets apart: a non-success result of these is not always fatal
PresentationOrAcquisition == {"vkAcquireNextImageKHR", "vkQueuePresentKHR"}

\* C14: whenever a Vulkan call other than the acquire and the present has returned a
\* non-success result, the process has ended on it (aborted by the throw, or main has
\* returned -1 from setup): no later statement has run.
C14_NonSuccessIsFatal ==
    failed \ PresentationOrAcquisition # {} =>
        /\ pc = "aborted" \/ (pc = "returned" /\ exitCode = -1)
        /\ lastCall \in failed

\* positions in the command sequence c at which the command named cmd is recorded
Positions(c, cmd) == { i \in 1..Len(c) : c[i].cmd = cmd }
\* the command buffers that hold a finished recording
Recorded == { h \in DOMAIN cbState : cbState[h] \in {"executable", "pending"} }

\* C15: every command buffer that holds a finished recording contains exactly one
\* draw, of 12 vertices, exactly one render-pass begin and one render-pass end, with
\* the begin before and the end after the draw, and a pipeline bind, a descriptor-set
\* bind and a vertex-buffer bind between the begin and the draw; every command buffer
\* submitted to the queue is such a buffer.
C15_OneDrawOfTwelveVertices ==
    /\ \A h \in Recorded :
         LET c == cbContents[h] IN
         /\ Cardinality(Positions(c, "vkCmdDraw")) = 1
         /\ Cardinality(Positions(c, "vkCmdBeginRenderPass")) = 1
         /\ Cardinality(Positions(c, "vkCmdEndRenderPass")) = 1
         /\ \A d \in Positions(c, "vkCmdDraw") :
              /\ c[d].arg = 12
              /\ \A b \in Positions(c, "vkCmdBeginRenderPass") : b < d
              /\ \A e \in Positions(c, "vkCmdEndRenderPass") : d < e
              /\ \A bind \in {"vkCmdBindPipeline", "vkCmdBindDescriptorSets",
                                "vkCmdBindVertexBuffers"} :
                   \E k \in Positions(c, bind) :
                       k < d /\ \A b \in Positions(c, "vkCmdBeginRenderPass") : b < k
    /\ \A i \in 1..Len(queue) :
         queue[i].op = "submit" /\ queue[i].cb \in DOMAIN cbState => queue[i].cb \in Recorded

\* C15 witness: the second frame has been recorded into a command buffer and is about
\* to be submitted.
C15_Witness ==
    /\ pc = "submit" /\ frame = 2
    /\ used.recCb \in Recorded
    /\ Len(cbContents[used.recCb]) > 0

\* main 1838-1887: the statements of one iteration in the order the loop body has them,
\* as pairs << position, next position >>
LoopOrder ==
    { << "loopTest", "poll" >>, << "poll", "resetFences" >>, << "resetFences", "acquire" >>,
      << "acquire", "record" >>, << "record", "submit" >>, << "submit", "submitWait" >>,
      << "submitWait", "present" >>, << "present", "delay" >>,
      << "present", "rc_deviceWaitIdle" >>,
      << "rc_deviceWaitIdle", "rc_destroyFramebuffers" >>,
      << "rc_destroyFramebuffers", "rc_destroyViews" >>,
      << "rc_destroyViews", "rc_destroySwapchain" >>,
      << "rc_destroySwapchain", "rc_destroyDepth" >>,
      << "rc_destroyDepth", "rc_createDepth" >>,
      << "rc_createDepth", "rc_depthBegin" >>, << "rc_depthBegin", "rc_depthSubmit" >>,
      << "rc_depthSubmit", "rc_depthWait" >>, << "rc_depthWait", "rc_depthFree" >>,
      << "rc_depthFree", "rc_createSwapChain" >>,
      << "rc_createSwapChain", "rc_getImages" >>,
      << "rc_getImages", "rc_makeViews" >>,
      << "rc_makeViews", "rc_makeFramebuffers" >>,
      << "rc_makeFramebuffers", "delay" >>,
      << "delay", "resetCommandBuffer" >>, << "resetCommandBuffer", "loopTest" >>,
      << "loopTest", "x_queueWaitIdle" >> }

\* the steps the current iteration has made: acquire, record, submit, present, reset
StepsDone ==
    << used.acquiredFrom # NullHandle, used.recCb # NullHandle, used.subCb # NullHandle,
       used.presSc # NullHandle, used.resetCb # NullHandle >>

\* a step of main from a position of the loop follows the order of the loop body, or
\* leaves the loop by a throw or a crash
OrderedStep ==
    (pc \in LoopPcs \cup RcPcs /\ pc' # pc) =>
        (<< pc, pc' >> \in LoopOrder \/ pc' \in {"aborted", "crashed"})

\* C16: main moves through the loop only along the order of the loop body (or leaves
\* it by a throw or a crash); at each position the iteration has made exactly the steps
\* before that position, each once; the acquire directly follows the fence reset; the
\* recreation is entered only after the present step and is left only to the end of the
\* iteration; and the poll of the next iteration starts only after the present call,
\* the recreation if any, and the reset of the command buffer have returned.
C16_StepsInFixedOrder ==
    /\ [][OrderedStep]_vars
    /\ [](pc \in {"resetFences", "acquire"} => StepsDone = << FALSE, FALSE, FALSE, FALSE, FALSE >>)
    /\ [](pc = "acquire" => lastCall = "vkResetFences")
    /\ [](pc = "record" => StepsDone = << TRUE, FALSE, FALSE, FALSE, FALSE >>)
    /\ [](pc = "submit" => StepsDone = << TRUE, TRUE, FALSE, FALSE, FALSE >>)
    /\ [](pc \in {"submitWait", "present"} => StepsDone = << TRUE, TRUE, TRUE, FALSE, FALSE >>)
    /\ [](pc \in {"delay", "resetCommandBuffer"} \cup RcPcs =>
            StepsDone = << TRUE, TRUE, TRUE, TRUE, FALSE >>)
    /\ [](pc \in {"loopTest", "poll"} /\ frame > 0 =>
            /\ StepsDone = << TRUE, TRUE, TRUE, TRUE, TRUE >>
            /\ results.present = "VK_ERROR_OUT_OF_DATE_KHR" <=> used.recreated)

\* C16 witness: the third iteration is about to be polled after a second iteration
\* that went through the recreation.
C16_Witness ==
    /\ pc = "poll" /\ frame = 2
    /\ used.recreated /\ used.resetCb # NullHandle

\* C17: whenever a frame is about to be recorded, commandBuffers has as many entries
\* as the current swapchain has images, each a live command buffer, so that
\* commandBuffers[nextImage] is an element of the vector for the index acquired.
C17_CommandBufferPerImage ==
    pc = "record" =>
        /\ Len(commandBuffers) = swapchain.count
        /\ InBounds(commandBuffers, nextImage)
        /\ \A i \in 1..Len(commandBuffers) : commandBuffers[i] \in live

\* the kinds of object that are rebuilt with the swapchain
RebuiltKinds == ChainKinds \cup {"depth"}

\* C18: no destroy call is ever given a handle that is not live (one destroyed before,
\* or the same handle twice), and when main has returned by the quit path no
\* framebuffer, image view, swapchain or depth resource is left live.
C18_DestroyedExactlyOnce ==
    /\ "destroyed a handle that is not live" \notin misuse
    /\ (pc = "returned" /\ exitCode = 1) =>
         ~ \E h \in live : h.kind \in RebuiltKinds

\* positions of main from the acquire to the present of an iteration
FramePcs == {"acquire", "record", "submit", "submitWait", "present"}

\* C19: from the acquire to the present of every iteration the swapchain is the live
\* swapchain of the latest recreation; for every index i below its image count
\* chainImageViews[i] is the live view of its image i and frameBuffers[i] is a live
\* framebuffer that attaches chainImageViews[i]; the framebuffer an iteration records
\* against is a framebuffer of the current swapchain; no acquire or present was made
\* on a swapchain that is not live.
C19_HandlesAreCurrent ==
    /\ pc \in FramePcs =>
         /\ swapchain \in live /\ swapchain.gen = gen
         /\ \A i \in 0..(swapchain.count - 1) :
              /\ InBounds(chainImageViews, i)
              /\ At(chainImageViews, i) = ViewH(ImageH(swapchain, i))
              /\ At(chainImageViews, i) \in live
              /\ InBounds(frameBuffers, i)
              /\ At(frameBuffers, i) \in live
              /\ At(frameBuffers, i).view = At(chainImageViews, i)
    /\ (pc \in FramePcs /\ used.recFb # NullHandle) =>
         /\ used.recFb.kind = "framebuffer"
         /\ used.recFb.view.image.sc = swapchain
    /\ "acquire from a swapchain that is not live" \notin misuse
    /\ "presented a swapchain that is not live" \notin misuse

\* the command-buffer submissions pending on the queue: frame submissions and one-shot
\* submissions
CbSubmissions == { i \in 1..Len(queue) : queue[i].op \in {"submit", "oneShot"} }
\* positions of main at a vkQueueSubmit, at the vkQueueWaitIdle after it, and after that
SubmitPcs == {"submit", "s_texSubmit", "s_depthSubmit", "rc_depthSubmit"}
WaitPcs == {"submitWait", "s_texWait", "s_depthWait", "rc_depthWait"}
AfterWaitPcs == {"present", "s_texFree", "s_depthFree", "rc_depthFree"}

\* C20: at most one command-buffer submission is ever pending; none is pending when a
\* submission is about to be made; every submission is directly followed by the wait
\* for queue idle; after the wait none is pending; and a one-shot command buffer whose
\* submission is still on the queue has not been freed.
C20_SubmitThenWaitAndFreeIdle ==
    /\ Cardinality(CbSubmissions) <= 1
    /\ pc \in SubmitPcs => CbSubmissions = {}
    /\ pc \in WaitPcs => lastCall = "vkQueueSubmit"
    /\ pc \in AfterWaitPcs => CbSubmissions = {}
    /\ \A i \in 1..Len(queue) : queue[i].op = "oneShot" => queue[i].cb \in live

\* the calls of setup that report failure to main by returning false
ReturnsFalse == Range(PlatformSteps) \cup {"createSwapChain", "vkGetSwapchainImagesKHR"}

LiveFramebuffers == { h \in Range(frameBuffers) : h \in live /\ h.kind = "framebuffer" }

\* C22: from the acquire to the present of every iteration the extent recordRenderPass
\* takes as render area (pipelineInfo.extent) is the extent of the current swapchain,
\* the depth image has that extent, and every live framebuffer main holds has that
\* extent and a depth attachment of the same extent.
C22_DepthExtentIsSwapchainExtent ==
    pc \in FramePcs =>
        /\ pipelineInfo.extent = swapchain.extent
        /\ depthImageView.extent = swapchain.extent
        /\ \A fb \in LiveFramebuffers :
             fb.extent = swapchain.extent /\ fb.depth.extent = fb.extent

\* the commands createImageFromTGAFile has submitted, and the layouts before the k-th
Commands == helper.out.commands
LayoutsBefore(k) == LayoutsAfter(Commands, k - 1, helper.out.mipLevels)

\* C23: in createImageFromTGAFile every barrier names as oldLayout the layout every
\* level of its range is in, the copy and every blit name TRANSFER_DST_OPTIMAL for a
\* destination level that is in TRANSFER_DST_OPTIMAL, every blit names
\* TRANSFER_SRC_OPTIMAL for a source level that is in TRANSFER_SRC_OPTIMAL, and on
\* return every mip level is in SHADER_READ_ONLY_OPTIMAL.
C23_LayoutsNamedAreActual ==
    (helper.fn = "createImageFromTGAFile" /\ helper.done) =>
        /\ \A k \in 1..Len(Commands) :
             LET c == Commands[k] IN
             /\ c.cmd = "vkCmdPipelineBarrier" =>
                  \A l \in c.base..(c.base + c.count - 1) : LayoutsBefore(k)[l + 1] = c.old
             /\ c.cmd = "vkCmdCopyBufferToImage" =>
                  /\ c.layout = "TRANSFER_DST_OPTIMAL"
                  /\ LayoutsBefore(k)[c.level + 1] = c.layout
             /\ c.cmd = "vkCmdBlitImage" =>
                  /\ c.srcLayout = "TRANSFER_SRC_OPTIMAL"
                  /\ LayoutsBefore(k)[c.src + 1] = c.srcLayout
                  /\ c.dstLayout = "TRANSFER_DST_OPTIMAL"
                  /\ LayoutsBefore(k)[c.dst + 1] = c.dstLayout
        /\ \A l \in 1..helper.out.mipLevels :
             LayoutsAfter(Commands, Len(Commands), helper.out.mipLevels)[l]
                 = "SHADER_READ_ONLY_OPTIMAL"

Blits == SelectSeq(Commands, LAMBDA c : c.cmd = "vkCmdBlitImage")
\* the extent of mip level l of a w by h image: each side halved l times, at least 1
LevelExtent(w, h, l) == << Max(1, w \div 2^l), Max(1, h \div 2^l) >>

\* C25: for a texture of width w and height h the mip level count L is the one with
\* 2^(L-1) <= max(w, h) < 2^L; generateMipmaps records exactly L - 1 blits; blit i reads
\* level i-1 with extent max(1, w div 2^(i-1)) by max(1, h div 2^(i-1)) and writes level i
\* with extent max(1, w div 2^i) by max(1, h div 2^i); the last level is 1 by 1.
C25_BlitPerLevelHalvedExtents ==
    (helper.fn = "createImageFromTGAFile" /\ helper.done) =>
        LET w == helper.in.width
            h == helper.in.height
            L == helper.out.mipLevels
        IN /\ 2^(L - 1) <= Max(w, h) /\ Max(w, h) < 2^L
           /\ Len(Blits) = L - 1
           /\ \A i \in 1..Len(Blits) :
                /\ Blits[i].src = i - 1
                /\ Blits[i].srcExtent = LevelExtent(w, h, i - 1)
                /\ Blits[i].dst = i
                /\ Blits[i].dstExtent = LevelExtent(w, h, i)
           /\ LevelExtent(w, h, L - 1) = << 1, 1 >>
           /\ L > 1 => Blits[L - 1].dstExtent = << 1, 1 >>

\* C25 witness: a 5 by 3 texture has been given its 3 levels by 2 blits.
C25_Witness ==
    /\ helper.fn = "createImageFromTGAFile" /\ helper.done
    /\ helper.in = [width |-> 5, height |-> 3]
    /\ helper.out.mipLevels = 3 /\ Len(Blits) = 2

\* the surface has reported the single entry that stands for 'no restriction'
NoRestriction ==
    Len(helper.in.found_formats) = 1 /\ helper.in.found_formats[1].format = "VK_FORMAT_UNDEFINED"

\* C26: when getSurfaceFormat has returned true for a list that is not the single
\* 'no restriction' entry, the pair it has written to outFormat is one of the pairs of
\* the list; in particular the preferred format with the preferred colour space is
\* written only when the list holds that pair.
C26_ReturnsReportedPair ==
    (helper.fn = "getSurfaceFormat" /\ helper.done /\ helper.out.ret /\ ~NoRestriction) =>
        helper.out.outFormat \in Range(helper.in.found_formats)

\* C27: getNumberOfSwapImages returns minImageCount + 1 when maxImageCount is 0 (no
\* upper limit) or minImageCount + 1 <= maxImageCount, and minImageCount otherwise; the
\* result is never below minImageCount and never above a non-zero maxImageCount.
C27_OneMoreThanMinimumIfAllowed ==
    (helper.fn = "getNumberOfSwapImages" /\ helper.done) =>
        LET lo == helper.in.minImageCount
            hi == helper.in.maxImageCount
            n == helper.out.value
        IN /\ n = (IF hi = 0 \/ lo + 1 <= hi THEN lo + 1 ELSE lo)
           /\ n >= lo
           /\ hi # 0 => n <= hi

\* C28: getSwapImageSize returns currentExtent when currentExtent.width is not the
\* undefined extent 0xFFFFFFFF; when it is, it returns the window size with width and
\* height each clamped into [minImageExtent, maxImageExtent]; in both cases the result
\* lies within [minImageExtent, maxImageExtent].
C28_CurrentExtentOrClampedWindow ==
    (helper.fn = "getSwapImageSize" /\ helper.done) =>
        LET c == helper.in IN
        /\ c.currentExtent.width # UndefinedExtent => helper.out = c.currentExtent
        /\ c.currentExtent.width = UndefinedExtent =>
             helper.out = [width |-> clamp(U32(windowWidth), c.minImageExtent.width,
                                           c.maxImageExtent.width),
                           height |-> clamp(U32(windowHeight), c.minImageExtent.height,
                                            c.maxImageExtent.height)]
        /\ Within(helper.out, c.minImageExtent, c.maxImageExtent)

\* C29: getPresentationMode returns false exactly when one of the two queries fails,
\* and then leaves ioMode alone; when both succeed it leaves ioMode unchanged if that
\* mode is in the list of available modes and sets it to VK_PRESENT_MODE_FIFO_KHR
\* otherwise, so that the mode it returns true with is an available mode or FIFO.
C29_PreferredModeOrFifo ==
    (helper.fn = "getPresentationMode" /\ helper.done) =>
        LET in == helper.in
            out == helper.out
        IN /\ out.ret <=> (in.countOk /\ in.modesOk)
           /\ ~out.ret => out.ioMode = in.ioMode
           /\ out.ret =>
                /\ in.ioMode \in Range(in.availableModes) => out.ioMode = in.ioMode
                /\ in.ioMode \notin Range(in.availableModes) =>
                     out.ioMode = "VK_PRESENT_MODE_FIFO_KHR"
                /\ out.ioMode \in Range(in.availableModes) \cup {"VK_PRESENT_MODE_FIFO_KHR"}

\* C29 witness: the preferred mode of the program, FIFO_RELAXED, is not among the two
\* available modes, and the call has fallen back to FIFO.
C29_Witness ==
    /\ helper.fn = "getPresentationMode" /\ helper.done /\ helper.out.ret
    /\ helper.in.ioMode = "VK_PRESENT_MODE_FIFO_RELAXED_KHR"
    /\ helper.in.availableModes = << "VK_PRESENT_MODE_FIFO_KHR", "VK_PRESENT_MODE_IMMEDIATE_KHR" >>
    /\ helper.out.ioMode = "VK_PRESENT_MODE_FIFO_KHR"

\* the indices findMemoryType may return: below memoryTypeCount, with their bit set in
\* memoryTypeBits and with every requested property flag
Suitable ==
    { i \in 0..(helper.in.memProperties.memoryTypeCount - 1) :
        /\ i \in helper.in.memoryTypeBits
        /\ helper.in.properties \subseteq helper.in.memProperties.memoryTypes[i] }

\* C30: findMemoryType throws exactly when no index below memoryTypeCount has its bit
\* set in memoryTypeBits and all requested property flags; otherwise it returns the
\* smallest such index, and never any other index.
C30_SmallestSuitableIndexOrThrow ==
    (helper.fn = "findMemoryType" /\ helper.done) =>
        /\ helper.out.throws <=> Suitable = {}
        /\ ~helper.out.throws =>
             /\ helper.out.index \in Suitable
             /\ \A j \in Suitable : helper.out.index <= j

\* C30 witness: index 31 has been returned for a device with 32 memory types, of which
\* type 0 has its bit set but lacks a requested flag and type 1 has the flags but not
\* its bit set.
C30_Witness ==
    /\ helper.fn = "findMemoryType" /\ helper.done /\ ~helper.out.throws
    /\ helper.out.index = 31
    /\ helper.in.memoryTypeBits = {0, 31}
    /\ helper.in.properties = {0, 1}
    /\ helper.in.memProperties.memoryTypes[0] = {0}
    /\ helper.in.memProperties.memoryTypes[1] = {0, 1}

====
